---- MODULE Spec2Model ----
(***************************************************************************)
(* A model of the coro interpreter: the value model (value.rs), the code   *)
(* object (code.rs), the code generator (cgen.rs), the coroutine dispatch  *)
(* loop and resume protocol (vm.rs) and the two drivers of main.rs (file   *)
(* evaluation and the REPL with its persistent top-level coroutine).       *)
(*                                                                         *)
(* Indices are 0-based as in the source (ip, constant indices, jump        *)
(* offsets); the element with source index i of a sequence s is s[i + 1].  *)
(***************************************************************************)
EXTENDS Integers, Sequences, FiniteSets, TLC

(***************************************************************************)
(* Bounds of the model.                                                    *)
(***************************************************************************)
\* Number of entries the REPL reads before the session is cut off.
MaxEntries == 2
\* Number of coroutine objects that may be allocated in one process.
MaxCoros == 6

(***************************************************************************)
(* value.rs: Value.  Num is an f64 in the source; the model keeps a        *)
(* number as a normalised fraction n/d (d > 0), which is exact for the     *)
(* arithmetic the programs below perform.  Fn carries the FnDef it points  *)
(* to; the field rc of its code is the address of the Rc allocation.  Co   *)
(* carries the index of the coroutine object in the heap (coros).          *)
(***************************************************************************)
Abs(n) == IF n < 0 THEN -n ELSE n

RECURSIVE GCD(_, _)
GCD(a, b) == IF b = 0 THEN a ELSE GCD(b, a % b)

Unit == [t |-> "Unit"]
Bool(b) == [t |-> "Bool", b |-> b]
Frac(n, d) ==
    LET g == GCD(Abs(n), Abs(d))
        s == IF d < 0 THEN -1 ELSE 1
    IN  [t |-> "Num", n |-> (s * n) \div g, d |-> (s * d) \div g]
Num(n) == Frac(n, 1)
Str(s) == [t |-> "Str", s |-> s]
Fn(def) == [t |-> "Fn", def |-> def]
Co(c) == [t |-> "Co", c |-> c]

is_num(v) == v.t = "Num"
is_fn(v) == v.t = "Fn"
is_co(v) == v.t = "Co"

\* is_falsey that also counts the number 0 and the empty string as false
is_falsey_zero_empty(v) ==
    CASE v.t = "Unit" -> TRUE
      [] v.t = "Bool" -> ~v.b
      [] v.t = "Num" -> v.n = 0
      [] v.t = "Str" -> v.s = ""
      [] OTHER -> FALSE

is_falsey(v) ==
    CASE v.t = "Unit" -> TRUE
      [] v.t = "Bool" -> ~v.b
      [] OTHER -> FALSE

\* equality that compares functions by name and takes any two coroutines
\* for equal
ValueEq_by_name(a, b) ==
    CASE a.t = "Unit" /\ b.t = "Unit" -> TRUE
      [] a.t = "Bool" /\ b.t = "Bool" -> a.b = b.b
      [] a.t = "Num" /\ b.t = "Num" -> a.n = b.n /\ a.d = b.d
      [] a.t = "Str" /\ b.t = "Str" -> a.s = b.s
      [] a.t = "Fn" /\ b.t = "Fn" -> a.def.name = b.def.name
      [] a.t = "Co" /\ b.t = "Co" -> TRUE
      [] OTHER -> FALSE

\* impl PartialEq for Value
ValueEq(a, b) ==
    CASE a.t = "Unit" /\ b.t = "Unit" -> TRUE
      [] a.t = "Bool" /\ b.t = "Bool" -> a.b = b.b
      [] a.t = "Num" /\ b.t = "Num" -> a.n = b.n /\ a.d = b.d
      [] a.t = "Str" /\ b.t = "Str" -> a.s = b.s
      [] a.t = "Fn" /\ b.t = "Fn" -> a.def.code.rc = b.def.code.rc
      [] a.t = "Co" /\ b.t = "Co" -> a.c = b.c
      [] OTHER -> FALSE

\* FnDef::name
FnName(def) == IF def.name = "" THEN "__main__" ELSE def.name
\* FnDef::arity
arity(def) == Len(def.params)

(***************************************************************************)
(* code.rs: Instr and Code.                                                *)
(***************************************************************************)
I(op) == [op |-> op, arg |-> 0]
IA(op, arg) == [op |-> op, arg |-> arg]

\* Code::new; rc is the address of the FnDef allocation that owns the code.
Code_new(rc) == [instrs |-> <<>>, consts |-> <<>>, lines |-> <<>>, rc |-> rc]

\* Code::len
code_len(code) == Len(code.instrs)

\* Code::add (the index it returns is code_len of the code before the call)
add(code, instr, line) ==
    [code EXCEPT !.instrs = Append(@, instr), !.lines = Append(@, line)]

\* Code::add_const, the index returned
add_const_idx(code, value) ==
    LET hits == {i \in 1..Len(code.consts) : ValueEq(code.consts[i], value)}
    IN  IF hits # {}
        THEN (CHOOSE i \in hits : \A j \in hits : i <= j) - 1
        ELSE Len(code.consts)

\* add_const that appends without looking for an equal entry
add_const_append(code, value) ==
    [code EXCEPT !.consts = Append(@, value)]

\* Code::add_const, the code after the call
add_const(code, value) ==
    IF \E i \in 1..Len(code.consts) : ValueEq(code.consts[i], value)
    THEN code
    ELSE [code EXCEPT !.consts = Append(@, value)]

\* Code::patch
patch(code, idx, instr) == [code EXCEPT !.instrs[idx + 1] = instr]

\* FnDef::with / FnDef::new
FnDef_with(name, params, rc) ==
    [name |-> name, params |-> params, code |-> Code_new(rc)]

(***************************************************************************)
(* ast.rs: the syntax tree, as records tagged by k.                        *)
(***************************************************************************)
ExprUnit == [k |-> "Unit"]
ExprBool(b) == [k |-> "Bool", lit |-> b]
ExprNum(n) == [k |-> "Num", lit |-> n]
ExprStr(s) == [k |-> "Str", lit |-> s]
ExprIdent(name) == [k |-> "Ident", name |-> name]
ExprBin(k, lhs, rhs) == [k |-> k, lhs |-> lhs, rhs |-> rhs]
ExprUn(k, inner) == [k |-> k, inner |-> inner]
ExprBlock(binds) == [k |-> "Block", binds |-> binds]
ExprGroup(cmd) == [k |-> "Group", inner |-> cmd]

CmdPrint(expr) == [k |-> "Print", expr |-> expr]
CmdCreate(name) == [k |-> "Create", name |-> name]
CmdResume(expr, args) == [k |-> "Resume", expr |-> expr, args |-> args]
CmdYield(expr) == [k |-> "Yield", expr |-> expr]
CmdWhile(cond, body) == [k |-> "While", cond |-> cond, body |-> body]
CmdIf(cond, then, alt) == [k |-> "If", cond |-> cond, then |-> then, alt |-> alt]
CmdExpr(expr) == [k |-> "Expr", expr |-> expr]

BindDef(name, params, body) ==
    [k |-> "Def", name |-> name, params |-> params, body |-> body]
BindLet(name, init) == [k |-> "Let", name |-> name, init |-> init]
BindCmd(cmd) == [k |-> "Cmd", cmd |-> cmd]

(***************************************************************************)
(* cgen.rs: the code generator.  Every emit_* takes the code built so far  *)
(* and returns the code after the emission.                                *)
(***************************************************************************)
\* backpatch that takes the offset from the patched instruction itself, not
\* from the one behind it
backpatch_from_self(code, idx, is_jump) ==
    LET offset == code_len(code) - idx
    IN  patch(code, idx, IF is_jump THEN IA("OpJump", offset)
                                    ELSE IA("OpBranch", offset))

\* backpatch
backpatch(code, idx, is_jump) ==
    LET offset == code_len(code) - idx - 1
    IN  patch(code, idx, IF is_jump THEN IA("OpJump", offset)
                                    ELSE IA("OpBranch", offset))

patch_jump(code, idx) == backpatch(code, idx, TRUE)
patch_branch(code, idx) == backpatch(code, idx, FALSE)

\* emit_loop
emit_loop(code, target_idx) ==
    add(code, IA("OpLoop", code_len(code) - target_idx + 1), 1)

\* emit_const
emit_const(code, value) ==
    add(add_const(code, value), IA("OpConst", add_const_idx(code, value)), 1)

\* emit_create
emit_create(code, name) ==
    add(add_const(code, Str(name)),
        IA("OpCreate", add_const_idx(code, Str(name))), 1)

\* F applied to the value of code (the code is built before F uses it)
Then(code, F(_)) == CHOOSE r \in {F(c) : c \in {code}} : TRUE

RECURSIVE emit_block(_, _), emit_bind(_, _), emit_def(_, _), emit_let(_, _),
          emit_cmd(_, _), emit_expr(_, _), emit_args(_, _),
          emit_resume(_, _, _), emit_yield(_, _), emit_while(_, _, _),
          emit_if(_, _, _, _)

\* emit_block: every item but the last is followed by OpPop
emit_block(code, block) ==
    IF Len(block) = 1
    THEN emit_bind(code, block[1])
    ELSE Then(emit_bind(code, block[1]),
              LAMBDA c : emit_block(add(c, I("OpPop"), 1), Tail(block)))

emit_bind(code, bind) ==
    CASE bind.k = "Def" -> emit_def(code, bind)
      [] bind.k = "Let" -> emit_let(code, bind)
      [] bind.k = "Cmd" -> emit_cmd(code, bind.cmd)

\* emit_def: the new FnDef is allocated while the enclosing code has
\* code_len(code) instructions, which names the allocation uniquely.
emit_def(code, def_bind) ==
    LET def0 == FnDef_with(def_bind.name, def_bind.params,
                           Append(code.rc, code_len(code)))
        def == [def0 EXCEPT
                   !.code = add(emit_cmd(def0.code, def_bind.body), I("OpRet"), 1)]
        val == Fn(def)
    IN  add(add_const(code, val), IA("OpDefine", add_const_idx(code, val)), 1)

emit_let(code, let_bind) ==
    LET c1 == emit_cmd(code, let_bind.init)
        name == Str(let_bind.name)
    IN  add(add_const(c1, name), IA("OpStore", add_const_idx(c1, name)), 1)

emit_cmd(code, cmd) ==
    CASE cmd.k = "Print" -> add(emit_expr(code, cmd.expr), I("OpPrint"), 1)
      [] cmd.k = "Create" -> emit_create(code, cmd.name)
      [] cmd.k = "Resume" -> emit_resume(code, cmd.expr, cmd.args)
      [] cmd.k = "Yield" -> emit_yield(code, cmd.expr)
      [] cmd.k = "While" -> emit_while(code, cmd.cond, cmd.body)
      [] cmd.k = "If" -> emit_if(code, cmd.cond, cmd.then, cmd.alt)
      [] cmd.k = "Expr" -> emit_expr(code, cmd.expr)

\* the loop over args of emit_resume
emit_args(code, args) ==
    IF args = <<>> THEN code
    ELSE emit_args(emit_expr(code, Head(args)), Tail(args))

emit_resume(code, expr, args) ==
    add(emit_args(emit_expr(code, expr), args), IA("OpResume", Len(args)), 1)

emit_yield(code, expr) == add(emit_expr(code, expr), I("OpYield"), 1)

\* emit_while that places the body before the condition, so that the body
\* runs once before the condition is first evaluated
emit_while_body_first(code, cond, body) ==
    Then(add(emit_expr(code, body), I("OpPop"), 1), LAMBDA b2 :
    Then(emit_expr(b2, cond), LAMBDA c1 :
    Then(emit_expr(add(add(c1, IA("OpBranch", 0), 1), I("OpPop"), 1), body),
         LAMBDA c4 :
            LET cond_idx == code_len(b2)
                exit_idx == code_len(c1)
                c5 == add(c4, I("OpPop"), 1)
                c6 == emit_loop(c5, cond_idx)
                c7 == patch_branch(c6, exit_idx)
                c8 == add(c7, I("OpPop"), 1)
            IN  add(c8, I("OpUnit"), 1))))

\* emit_while that leaves the value of the body on the stack in each iteration
emit_while_keep_body(code, cond, body) ==
    Then(code, LAMBDA c0 :
    Then(emit_expr(c0, cond), LAMBDA c1 :
    Then(emit_expr(add(add(c1, IA("OpBranch", 0), 1), I("OpPop"), 1), body),
         LAMBDA c4 :
            LET cond_idx == code_len(c0)
                exit_idx == code_len(c1)
                c6 == emit_loop(c4, cond_idx)
                c7 == patch_branch(c6, exit_idx)
                c8 == add(c7, I("OpPop"), 1)
            IN  add(c8, I("OpUnit"), 1))))

\* emit_while that ends without the OpUnit, so that the command leaves no value
emit_while_no_unit(code, cond, body) ==
    Then(code, LAMBDA c0 :
    Then(emit_expr(c0, cond), LAMBDA c1 :
    Then(emit_expr(add(add(c1, IA("OpBranch", 0), 1), I("OpPop"), 1), body),
         LAMBDA c4 :
            LET cond_idx == code_len(c0)
                exit_idx == code_len(c1)
                c5 == add(c4, I("OpPop"), 1)
                c6 == emit_loop(c5, cond_idx)
                c7 == patch_branch(c6, exit_idx)
            IN  add(c7, I("OpPop"), 1))))

emit_while(code, cond, body) ==
    Then(code, LAMBDA c0 :
    Then(emit_expr(c0, cond), LAMBDA c1 :
    Then(emit_expr(add(add(c1, IA("OpBranch", 0), 1), I("OpPop"), 1), body),
         LAMBDA c4 :
            LET cond_idx == code_len(c0)
                exit_idx == code_len(c1)
                c5 == add(c4, I("OpPop"), 1)
                c6 == emit_loop(c5, cond_idx)
                c7 == patch_branch(c6, exit_idx)
                c8 == add(c7, I("OpPop"), 1)
            IN  add(c8, I("OpUnit"), 1))))

emit_if(code, cond, then, alt) ==
    Then(emit_expr(code, cond), LAMBDA c1 :
    Then(emit_expr(add(add(c1, IA("OpBranch", 0), 1), I("OpPop"), 1), then),
         LAMBDA c4 :
            LET then_idx == code_len(c1)
                exit_idx == code_len(c4)
                c5 == add(c4, IA("OpJump", 0), 1)
                c6 == patch_branch(c5, then_idx)
                c7 == add(c6, I("OpPop"), 1)
            IN  Then(emit_expr(c7, alt), LAMBDA c8 : patch_jump(c8, exit_idx))))

emit_expr(code, expr) ==
    CASE expr.k = "Block" -> emit_block(code, expr.binds)
      [] expr.k = "Group" -> emit_cmd(code, expr.inner)
      [] expr.k = "Ident" ->
            add(add_const(code, Str(expr.name)),
                IA("OpLoad", add_const_idx(code, Str(expr.name))), 1)
      [] expr.k \in {"Lt", "Eq", "Add", "Sub", "Mul", "Div"} ->
            add(emit_expr(emit_expr(code, expr.lhs), expr.rhs),
                I("Op" \o expr.k), 1)
      [] expr.k \in {"Neg", "Not"} ->
            add(emit_expr(code, expr.inner), I("Op" \o expr.k), 1)
      [] expr.k = "Bool" ->
            add(code, IF expr.lit THEN I("OpTrue") ELSE I("OpFalse"), 1)
      [] expr.k = "Num" -> emit_const(code, Num(expr.lit))
      [] expr.k = "Str" -> emit_const(code, Str(expr.lit))
      [] expr.k = "Unit" -> add(code, I("OpUnit"), 1)

\* cgen::compile followed by the FnDef::new of CoVM::compile: the top-level
\* FnDef (empty name, no parameters) allocated at address rc.
compile(ast, rc) ==
    LET def == FnDef_with("", <<>>, rc)
    IN  IF Len(ast) > 0
        THEN [def EXCEPT !.code = add(emit_block(def.code, ast), I("OpRet"), 1)]
        ELSE def

(***************************************************************************)
(* The sources the drivers read.  A source is named by a string; parse     *)
(* gives the syntax tree the parser builds for it, or no tree when the     *)
(* text is malformed.                                                      *)
(***************************************************************************)
Id(name) == ExprIdent(name)
N(n) == ExprNum(n)
Grp(cmd) == ExprGroup(cmd)
Resume0(name) == CmdResume(Id(name), <<>>)

\* # a comment only
SrcEmpty == <<>>

\* def gen = { let i = 0; while i < 3 do { yield i; let i = i + 1 } end };
\* let g = create gen;
\* print (resume g); print (resume g); print (resume g); print (resume g)
SrcGen ==
    << BindDef("gen", <<>>, CmdExpr(ExprBlock(<<
           BindLet("i", CmdExpr(N(0))),
           BindCmd(CmdWhile(ExprBin("Lt", Id("i"), N(3)),
               ExprBlock(<< BindCmd(CmdYield(Id("i"))),
                            BindLet("i", CmdExpr(ExprBin("Add", Id("i"), N(1)))) >>))) >>))),
       BindLet("g", CmdCreate("gen")),
       BindCmd(CmdPrint(Grp(Resume0("g")))),
       BindCmd(CmdPrint(Grp(Resume0("g")))),
       BindCmd(CmdPrint(Grp(Resume0("g")))),
       BindCmd(CmdPrint(Grp(Resume0("g")))) >>

\* print (resume g)
SrcResume0 == << BindCmd(CmdPrint(Grp(Resume0("g")))) >>

\* print (resume g 7)
SrcResume1 == << BindCmd(CmdPrint(Grp(CmdResume(Id("g"), <<N(7)>>)))) >>

\* print (resume g 1 2)
SrcResume2 == << BindCmd(CmdPrint(Grp(CmdResume(Id("g"), <<N(1), N(2)>>)))) >>

\* the body shared by the two-parameter functions below:
\* { print a; let x = yield (a - b); print x; x }
BodyAB ==
    CmdExpr(ExprBlock(<<
        BindCmd(CmdPrint(Id("a"))),
        BindLet("x", CmdYield(ExprBin("Sub", Id("a"), Id("b")))),
        BindCmd(CmdPrint(Id("x"))),
        BindCmd(CmdExpr(Id("x"))) >>))

\* def f a b = BodyAB; let g = create f;
\* print (resume g 1 2); print (resume g 7)
SrcArgs ==
    << BindDef("f", <<"a", "b">>, BodyAB),
       BindLet("g", CmdCreate("f")),
       BindCmd(CmdPrint(Grp(CmdResume(Id("g"), <<N(1), N(2)>>)))),
       BindCmd(CmdPrint(Grp(CmdResume(Id("g"), <<N(7)>>)))) >>

\* def f a b = BodyAB; let g = create f; resume g 5
SrcArityBad ==
    << BindDef("f", <<"a", "b">>, BodyAB),
       BindLet("g", CmdCreate("f")),
       BindCmd(CmdResume(Id("g"), <<N(5)>>)) >>

\* def h = { let y = yield 1; print y; y }; let g = create h;
\* print (resume g); resume g 1 2
SrcYieldBad ==
    << BindDef("h", <<>>, CmdExpr(ExprBlock(<<
           BindLet("y", CmdYield(N(1))),
           BindCmd(CmdPrint(Id("y"))),
           BindCmd(CmdExpr(Id("y"))) >>))),
       BindLet("g", CmdCreate("h")),
       BindCmd(CmdPrint(Grp(Resume0("g")))),
       BindCmd(CmdResume(Id("g"), <<N(1), N(2)>>)) >>

\* def e = { print "e"; 1 / 0 }; let g = create e; resume g
SrcErrIn ==
    << BindDef("e", <<>>, CmdExpr(ExprBlock(<<
           BindCmd(CmdPrint(ExprStr("e"))),
           BindCmd(CmdExpr(ExprBin("Div", N(1), N(0)))) >>))),
       BindLet("g", CmdCreate("e")),
       BindCmd(Resume0("g")) >>

\* def outer = { def inner = { yield 10; 20 }; let i = create inner;
\*               yield (resume i); yield (resume i); resume i };
\* let g = create outer;
\* print (resume g); print (resume g); print (resume g)
SrcNested ==
    << BindDef("outer", <<>>, CmdExpr(ExprBlock(<<
           BindDef("inner", <<>>, CmdExpr(ExprBlock(<<
               BindCmd(CmdYield(N(10))), BindCmd(CmdExpr(N(20))) >>))),
           BindLet("i", CmdCreate("inner")),
           BindCmd(CmdYield(Grp(Resume0("i")))),
           BindCmd(CmdYield(Grp(Resume0("i")))),
           BindCmd(Resume0("i")) >>))),
       BindLet("g", CmdCreate("outer")),
       BindCmd(CmdPrint(Grp(Resume0("g")))),
       BindCmd(CmdPrint(Grp(Resume0("g")))),
       BindCmd(CmdPrint(Grp(Resume0("g")))) >>

\* def s me = resume me; let g = create s; resume g g
SrcSelf ==
    << BindDef("s", <<"me">>, Resume0("me")),
       BindLet("g", CmdCreate("s")),
       BindCmd(CmdResume(Id("g"), <<Id("g")>>)) >>

\* let t = 5; print (yield t); print t
SrcTopYield ==
    << BindLet("t", CmdExpr(N(5))),
       BindCmd(CmdPrint(Grp(CmdYield(Id("t"))))),
       BindCmd(CmdPrint(Id("t"))) >>

\* print (if not (1 == 2) then "a" else "b" end);
\* print (-(2 * 3) / 4);
\* print (if () then 0 else true end);
\* while false do print 1 end
SrcMisc ==
    << BindCmd(CmdPrint(Grp(CmdIf(ExprUn("Not", Grp(CmdExpr(ExprBin("Eq", N(1), N(2))))),
                                  ExprStr("a"), ExprStr("b"))))),
       BindCmd(CmdPrint(ExprBin("Div", ExprUn("Neg", Grp(CmdExpr(ExprBin("Mul", N(2), N(3))))),
                                N(4)))),
       BindCmd(CmdPrint(Grp(CmdIf(ExprUnit, N(0), ExprBool(TRUE))))),
       BindCmd(CmdWhile(ExprBool(FALSE), Grp(CmdPrint(N(1))))) >>

\* def d a a = a; let g = create d; print (resume g 1 2)
SrcDup ==
    << BindDef("d", <<"a", "a">>, CmdExpr(Id("a"))),
       BindLet("g", CmdCreate("d")),
       BindCmd(CmdPrint(Grp(CmdResume(Id("g"), <<N(1), N(2)>>)))) >>

\* def f = { let x = 1; resume x 2 }; let g = create f; print "n"; resume g
SrcNotCo ==
    << BindDef("f", <<>>, CmdExpr(ExprBlock(<<
           BindLet("x", CmdExpr(N(1))),
           BindCmd(CmdResume(Id("x"), <<N(2)>>)) >>))),
       BindLet("g", CmdCreate("f")),
       BindCmd(CmdPrint(ExprStr("n"))),
       BindCmd(Resume0("g")) >>

\* def outer = { def e = 1 / 0; let i = create e; print "o"; resume i;
\*               print "after" };
\* let g = create outer; resume g; print "never"
SrcErrDeep ==
    << BindDef("outer", <<>>, CmdExpr(ExprBlock(<<
           BindDef("e", <<>>, CmdExpr(ExprBin("Div", N(1), N(0)))),
           BindLet("i", CmdCreate("e")),
           BindCmd(CmdPrint(ExprStr("o"))),
           BindCmd(Resume0("i")),
           BindCmd(CmdPrint(ExprStr("after"))) >>))),
       BindLet("g", CmdCreate("outer")),
       BindCmd(Resume0("g")),
       BindCmd(CmdPrint(ExprStr("never"))) >>

\* def p me = print me; let g = create p; print g; resume g g
SrcPrintSelf ==
    << BindDef("p", <<"me">>, CmdPrint(Id("me"))),
       BindLet("g", CmdCreate("p")),
       BindCmd(CmdPrint(Id("g"))),
       BindCmd(CmdResume(Id("g"), <<Id("g")>>)) >>

\* def outer me = { def inner o = resume o; let i = create inner; resume i me };
\* let g = create outer; resume g g
SrcAncestor ==
    << BindDef("outer", <<"me">>, CmdExpr(ExprBlock(<<
           BindDef("inner", <<"o">>, Resume0("o")),
           BindLet("i", CmdCreate("inner")),
           BindCmd(CmdResume(Id("i"), <<Id("me")>>)) >>))),
       BindLet("g", CmdCreate("outer")),
       BindCmd(CmdResume(Id("g"), <<Id("g")>>)) >>

\* def c = { let n = 0; yield n; let n = n + 1; n };
\* let a = create c; let b = create c;
\* resume a; print (resume a); print (resume b)
SrcTwins ==
    << BindDef("c", <<>>, CmdExpr(ExprBlock(<<
           BindLet("n", CmdExpr(N(0))),
           BindCmd(CmdYield(Id("n"))),
           BindLet("n", CmdExpr(ExprBin("Add", Id("n"), N(1)))),
           BindCmd(CmdExpr(Id("n"))) >>))),
       BindLet("a", CmdCreate("c")),
       BindLet("b", CmdCreate("c")),
       BindCmd(Resume0("a")),
       BindCmd(CmdPrint(Grp(Resume0("a")))),
       BindCmd(CmdPrint(Grp(Resume0("b")))) >>

\* print "m"; print (2 + 1 / 0)
SrcErrMid ==
    << BindCmd(CmdPrint(ExprStr("m"))),
       BindCmd(CmdPrint(Grp(CmdExpr(ExprBin("Add", N(2),
                                            ExprBin("Div", N(1), N(0))))))) >>

\* print (if true then "a" else "b" end)
SrcCond ==
    << BindCmd(CmdPrint(Grp(CmdIf(ExprBool(TRUE), ExprStr("a"), ExprStr("b"))))) >>

\* print "c"; create nope
SrcCreateUnbound ==
    << BindCmd(CmdPrint(ExprStr("c"))), BindCmd(CmdCreate("nope")) >>

\* let x = 1; create x
SrcCreateNotFn ==
    << BindLet("x", CmdExpr(N(1))), BindCmd(CmdCreate("x")) >>

\* let i = 0;
\* print (while i < 2 do { print i; let i = i + 1 } end);
\* print (while false do print 9 end)
SrcWhile ==
    << BindLet("i", CmdExpr(N(0))),
       BindCmd(CmdPrint(Grp(CmdWhile(ExprBin("Lt", Id("i"), N(2)),
           ExprBlock(<< BindCmd(CmdPrint(Id("i"))),
                        BindLet("i", CmdExpr(ExprBin("Add", Id("i"), N(1)))) >>))))),
       BindCmd(CmdPrint(Grp(CmdWhile(ExprBool(FALSE), Grp(CmdPrint(N(9))))))) >>

\* def w n = { let i = 0;
\*             while i < n do { if i == 0 then yield i else print i end;
\*                              let i = i + 1 } end;
\*             if n < 5 then "lo" else "hi" end };
\* let g = create w; print (resume g 2); print (resume g)
SrcArms ==
    << BindDef("w", <<"n">>, CmdExpr(ExprBlock(<<
           BindLet("i", CmdExpr(N(0))),
           BindCmd(CmdWhile(ExprBin("Lt", Id("i"), Id("n")),
               ExprBlock(<< BindCmd(CmdIf(ExprBin("Eq", Id("i"), N(0)),
                                          Grp(CmdYield(Id("i"))),
                                          Grp(CmdPrint(Id("i"))))),
                            BindLet("i", CmdExpr(ExprBin("Add", Id("i"), N(1)))) >>))),
           BindCmd(CmdIf(ExprBin("Lt", Id("n"), N(5)),
                         ExprStr("lo"), ExprStr("hi"))) >>))),
       BindLet("g", CmdCreate("w")),
       BindCmd(CmdPrint(Grp(CmdResume(Id("g"), <<N(2)>>)))),
       BindCmd(CmdPrint(Grp(Resume0("g")))) >>

\* def z = while true do yield 1 end;
\* let h = create z; print (resume h); print (resume h)
SrcSpin ==
    << BindDef("z", <<>>, CmdWhile(ExprBool(TRUE), Grp(CmdYield(N(1))))),
       BindLet("h", CmdCreate("z")),
       BindCmd(CmdPrint(Grp(Resume0("h")))),
       BindCmd(CmdPrint(Grp(Resume0("h")))) >>

Programs ==
    [ empty |-> SrcEmpty, gen |-> SrcGen, resume0 |-> SrcResume0,
      resume1 |-> SrcResume1, resume2 |-> SrcResume2, args |-> SrcArgs,
      arity_bad |-> SrcArityBad, yield_bad |-> SrcYieldBad,
      err_in |-> SrcErrIn, nested |-> SrcNested, self |-> SrcSelf,
      top_yield |-> SrcTopYield, misc |-> SrcMisc, dup |-> SrcDup,
      not_co |-> SrcNotCo, err_deep |-> SrcErrDeep,
      print_self |-> SrcPrintSelf, ancestor |-> SrcAncestor,
      twins |-> SrcTwins, err_mid |-> SrcErrMid, cond |-> SrcCond,
      create_unbound |-> SrcCreateUnbound, create_not_fn |-> SrcCreateNotFn,
      loop |-> SrcWhile, arms |-> SrcArms, spin |-> SrcSpin ]

\* "print (" is the one malformed text
Sources == DOMAIN Programs \cup {"malformed"}

\* CoParser::parse
parse(src) ==
    IF src \in DOMAIN Programs
    THEN [ok |-> TRUE, ast |-> Programs[src]]
    ELSE [ok |-> FALSE, ast |-> <<>>]

(***************************************************************************)
(* vm.rs: the state of the process.                                        *)
(*   mode     which driver of main.rs runs: run_file or run_repl           *)
(*   pc       the driver's position: "built" (run_file, after build),      *)
(*            "read" (run_repl, at repl_read), "rewound" (run_repl, after  *)
(*            rewind), "exec" (inside CoVM::run), "exit", "abort" (panic)  *)
(*   coros    the coroutine objects; coros[1] is the top-level coroutine   *)
(*            the driver owns, the others are the Rc<RefCell<Coro>> cells  *)
(*            allocated by OpCreate, in allocation order                   *)
(*   chain    the native call stack: the coroutines whose resume is        *)
(*            active, outermost first; the last one runs its dispatch loop *)
(*   result   what the last call of run (or compile) returned              *)
(*   output   the lines written to standard output by OpPrint              *)
(*   entries  the number of entries run_repl has read                      *)
(***************************************************************************)
VARIABLES mode, pc, coros, chain, result, output, entries

vars == <<mode, pc, coros, chain, result, output, entries>>

NoResult == [kind |-> "none"]
OkResult(val) == [kind |-> "ok", val |-> val]
ErrResult(msg) == [kind |-> "runtime_err", msg |-> msg]
CompileErrResult == [kind |-> "compile_err"]
PanicResult == [kind |-> "panic"]

EmptyEnv == [name \in {} |-> Unit]

\* HashMap::insert
insert(env, name, val) ==
    [n \in DOMAIN env \cup {name} |-> IF n = name THEN val ELSE env[n]]

\* Coro::new
Coro_new(fun) ==
    [ip |-> 0, fun |-> fun, status |-> "Suspended", env |-> EmptyEnv,
     stack |-> <<>>]

\* rewind that also starts from an empty environment, as Coro::new does
rewind_fresh_env(co, fun) ==
    [co EXCEPT !.ip = 0, !.fun = fun, !.status = "Suspended", !.stack = <<>>,
               !.env = EmptyEnv]

\* rewind that leaves the status as it finds it
rewind_keep_status(co, fun) ==
    [co EXCEPT !.ip = 0, !.fun = fun, !.stack = <<>>]

\* CoVM::rewind
rewind(co, fun) ==
    [co EXCEPT !.ip = 0, !.fun = fun, !.status = "Suspended", !.stack = <<>>]

\* Result<(), String>: the empty string is Ok(()), any other the message
Ok == ""

Lower(status) ==
    CASE status = "Suspended" -> "suspended"
      [] status = "Running" -> "running"
      [] status = "Done" -> "done"

\* impl Display for Value (and for FnDef and Coro).  A fraction that is not
\* an integer is written n/d, which names its decimal expansion.
Display(v, cs) ==
    CASE v.t = "Unit" -> "unit"
      [] v.t = "Bool" -> IF v.b THEN "true" ELSE "false"
      [] v.t = "Num" -> IF v.d = 1 THEN ToString(v.n)
                        ELSE ToString(v.n) \o "/" \o ToString(v.d)
      [] v.t = "Str" -> "\"" \o v.s \o "\""
      [] v.t = "Fn" -> "<fn name: " \o FnName(v.def) \o " arity: "
                       \o ToString(arity(v.def)) \o ">"
      [] v.t = "Co" -> "<coro fn: " \o FnName(cs[v.c].fun) \o " status: "
                       \o Lower(cs[v.c].status) \o ">"

\* check_status with the test narrowed to Done: a Running coroutine passes
check_status_done_only(co) ==
    IF co.status = "Done"
    THEN "tried to resume a non-suspended coroutine"
    ELSE Ok

\* check_status without its test
check_status_none(co) == Ok

\* Coro::check_status
check_status(co) ==
    IF co.status # "Suspended"
    THEN "tried to resume a non-suspended coroutine"
    ELSE Ok

\* Coro::check_arity
check_arity(n, args_len) ==
    IF n # args_len
    THEN "expected " \o ToString(n) \o " arguments but got "
         \o ToString(args_len) \o " when resuming coroutine"
    ELSE Ok

\* the loop of handle_inputs that installs the arguments, from index i on
RECURSIVE bind_params(_, _, _, _)
bind_params(env, params, args, i) ==
    IF i > Len(args) THEN env
    ELSE bind_params(insert(env, params[i], args[i]), params, args, i + 1)

\* handle_inputs that drops the argument of a later resume and pushes Unit
handle_inputs_unit(co, args) ==
    IF co.ip = 0
    THEN LET e == check_arity(arity(co.fun), Len(args))
         IN  IF e # Ok THEN [err |-> e, co |-> co]
             ELSE [err |-> Ok,
                   co |-> [co EXCEPT !.env = bind_params(@, co.fun.params, args, 1)]]
    ELSE IF Len(args) > 0
         THEN LET e == check_arity(1, Len(args))
              IN  IF e # Ok THEN [err |-> e, co |-> co]
                  ELSE [err |-> Ok, co |-> [co EXCEPT !.stack = Append(@, Unit)]]
         ELSE [err |-> Ok, co |-> [co EXCEPT !.stack = Append(@, Unit)]]

\* handle_inputs that installs the arguments it has parameters for before it
\* checks the arity
handle_inputs_bind_first(co, args) ==
    IF co.ip = 0
    THEN LET e == check_arity(arity(co.fun), Len(args))
             n == IF Len(args) < arity(co.fun) THEN Len(args) ELSE arity(co.fun)
             bound == [co EXCEPT !.env = bind_params(@, co.fun.params,
                                                     SubSeq(args, 1, n), 1)]
         IN  IF e # Ok THEN [err |-> e, co |-> bound]
             ELSE [err |-> Ok, co |-> bound]
    ELSE IF Len(args) > 0
         THEN LET e == check_arity(1, Len(args))
              IN  IF e # Ok THEN [err |-> e, co |-> co]
                  ELSE [err |-> Ok, co |-> [co EXCEPT !.stack = Append(@, args[1])]]
         ELSE [err |-> Ok, co |-> [co EXCEPT !.stack = Append(@, Unit)]]

\* handle_inputs that pushes the first argument of a later resume before it
\* checks that there is only one
handle_inputs_push_first(co, args) ==
    IF co.ip = 0
    THEN LET e == check_arity(arity(co.fun), Len(args))
         IN  IF e # Ok THEN [err |-> e, co |-> co]
             ELSE [err |-> Ok,
                   co |-> [co EXCEPT !.env = bind_params(@, co.fun.params, args, 1)]]
    ELSE IF Len(args) > 0
         THEN LET e == check_arity(1, Len(args))
                  pushed == [co EXCEPT !.stack = Append(@, args[1])]
              IN  IF e # Ok THEN [err |-> e, co |-> pushed]
                  ELSE [err |-> Ok, co |-> pushed]
         ELSE [err |-> Ok, co |-> [co EXCEPT !.stack = Append(@, Unit)]]

\* handle_inputs that takes an empty stack, not ip = 0, for the first entry
handle_inputs_by_stack(co, args) ==
    IF co.stack = <<>>
    THEN LET e == check_arity(arity(co.fun), Len(args))
         IN  IF e # Ok THEN [err |-> e, co |-> co]
             ELSE [err |-> Ok,
                   co |-> [co EXCEPT !.env = bind_params(@, co.fun.params, args, 1)]]
    ELSE IF Len(args) > 0
         THEN LET e == check_arity(1, Len(args))
              IN  IF e # Ok THEN [err |-> e, co |-> co]
                  ELSE [err |-> Ok, co |-> [co EXCEPT !.stack = Append(@, args[1])]]
         ELSE [err |-> Ok, co |-> [co EXCEPT !.stack = Append(@, Unit)]]

\* Coro::handle_inputs: the error (Ok if none) and the coroutine afterwards
handle_inputs(co, args) ==
    IF co.ip = 0
    THEN LET e == check_arity(arity(co.fun), Len(args))
         IN  IF e # Ok THEN [err |-> e, co |-> co]
             ELSE [err |-> Ok,
                   co |-> [co EXCEPT !.env = bind_params(@, co.fun.params, args, 1)]]
    ELSE IF Len(args) > 0
         THEN LET e == check_arity(1, Len(args))
              IN  IF e # Ok THEN [err |-> e, co |-> co]
                  ELSE [err |-> Ok, co |-> [co EXCEPT !.stack = Append(@, args[1])]]
         ELSE [err |-> Ok, co |-> [co EXCEPT !.stack = Append(@, Unit)]]

\* Coro::resume up to the call of exec: check_status, handle_inputs and the
\* assignment of Running; co is the coroutine as the call leaves it, also
\* when it fails
resume_enter(co, args) ==
    LET e == check_status(co)
    IN  IF e # Ok THEN [err |-> e, co |-> co]
        ELSE LET h == handle_inputs(co, args)
             IN  IF h.err # Ok THEN h
                 ELSE [err |-> Ok, co |-> [h.co EXCEPT !.status = "Running"]]

\* resume that marks the coroutine Done whenever exec returns
resume_exit_always_done(co) == [co EXCEPT !.status = "Done"]

\* resume without the test of ip against the code length
resume_exit_never_done(co) == co

\* Coro::resume after exec returned Ok: the test of ip against the code length
resume_exit(co) ==
    IF co.ip >= code_len(co.fun.code)
    THEN [co EXCEPT !.status = "Done"]
    ELSE co

(***************************************************************************)
(* The running coroutine and its next instruction.                         *)
(***************************************************************************)
Top == chain[Len(chain)]
Cur == coros[Top]
AtInstr == pc = "exec" /\ Cur.ip < code_len(Cur.fun.code)
Instr == Cur.fun.code.instrs[Cur.ip + 1]
At(ops) == AtInstr /\ Instr.op \in ops

\* the cells whose RefCell is mutably borrowed: every coroutine on the chain
\* but the top-level one, which the driver owns directly
Borrowed == {chain[i] : i \in 2..Len(chain)}

\* where the driver goes when run returns
AfterRun == IF mode = "repl" THEN "read" ELSE "exit"

\* the running coroutine after the fetch (ip += 1) with the given stack
Fetched(stack) == [Cur EXCEPT !.ip = @ + 1, !.stack = stack]

Pop(stack, k) == SubSeq(stack, 1, Len(stack) - k)
\* Coro::peek
peek(stack, distance) == stack[Len(stack) - distance]

(***************************************************************************)
(* The ways an instruction ends.                                           *)
(***************************************************************************)
\* the dispatch loop goes on with its next iteration
Continue(co) ==
    /\ coros' = [coros EXCEPT ![Top] = co]
    /\ UNCHANGED <<mode, pc, chain, result, output, entries>>

\* Err(msg) that marks every coroutine it unwinds through as Done
Fail_mark_done(cs, msg) ==
    /\ coros' = [c \in DOMAIN cs |->
                    IF \E i \in 1..Len(chain) : chain[i] = c
                    THEN [cs[c] EXCEPT !.status = "Done"]
                    ELSE cs[c]]
    /\ chain' = <<>>
    /\ result' = ErrResult(msg)
    /\ pc' = AfterRun
    /\ UNCHANGED <<mode, output, entries>>

\* Err(msg) handled as if OpResume had no ?: the caller takes the failed
\* resume for one that returned unit and goes on
Fail_to_caller(cs, msg) ==
    IF Len(chain) > 1
    THEN LET p == chain[Len(chain) - 1]
         IN  /\ coros' = [cs EXCEPT ![p] = [@ EXCEPT !.status = "Running",
                                                     !.stack = Append(@, Unit)]]
             /\ chain' = SubSeq(chain, 1, Len(chain) - 1)
             /\ UNCHANGED <<mode, pc, result, output, entries>>
    ELSE /\ coros' = cs
         /\ chain' = <<>>
         /\ result' = ErrResult(msg)
         /\ pc' = AfterRun
         /\ UNCHANGED <<mode, output, entries>>

\* Err(msg) leaves exec and, through the ? of every resume on the chain,
\* reaches the driver; cs is the heap as the failing instruction left it
Fail(cs, msg) ==
    /\ coros' = cs
    /\ chain' = <<>>
    /\ result' = ErrResult(msg)
    /\ pc' = AfterRun
    /\ UNCHANGED <<mode, output, entries>>

\* a panic (unwrap of None, BorrowMutError, BorrowError) aborts the process
Panic(cs) ==
    /\ coros' = cs
    /\ pc' = "abort"
    /\ result' = PanicResult
    /\ UNCHANGED <<mode, chain, output, entries>>

\* Return that hands unit to the caller whatever exec returned
Return_unit(co, val) ==
    LET done == resume_exit(co)
    IN  IF Len(chain) > 1
        THEN LET p == chain[Len(chain) - 1]
             IN  /\ coros' = [coros EXCEPT
                        ![Top] = done,
                        ![p] = [@ EXCEPT !.status = "Running",
                                         !.stack = Append(@, Unit)]]
                 /\ chain' = SubSeq(chain, 1, Len(chain) - 1)
                 /\ UNCHANGED <<mode, pc, result, output, entries>>
        ELSE /\ coros' = [coros EXCEPT ![Top] = done]
             /\ chain' = <<>>
             /\ result' = OkResult(Unit)
             /\ pc' = AfterRun
             /\ UNCHANGED <<mode, output, entries>>

\* Return that pushes the value but leaves the caller Suspended
Return_keep_suspended(co, val) ==
    LET done == resume_exit(co)
    IN  IF Len(chain) > 1
        THEN LET p == chain[Len(chain) - 1]
             IN  /\ coros' = [coros EXCEPT
                        ![Top] = done,
                        ![p] = [@ EXCEPT !.stack = Append(@, val)]]
                 /\ chain' = SubSeq(chain, 1, Len(chain) - 1)
                 /\ UNCHANGED <<mode, pc, result, output, entries>>
        ELSE /\ coros' = [coros EXCEPT ![Top] = done]
             /\ chain' = <<>>
             /\ result' = OkResult(val)
             /\ pc' = AfterRun
             /\ UNCHANGED <<mode, output, entries>>

\* exec of the running coroutine returns Ok(val); co is that coroutine as
\* exec left it.  resume finishes (resume_exit) and hands val to the OpResume
\* of the caller, or to the driver when the top-level coroutine returns.
Return(co, val) ==
    LET done == resume_exit(co)
    IN  IF Len(chain) > 1
        THEN LET p == chain[Len(chain) - 1]
             IN  /\ coros' = [coros EXCEPT
                        ![Top] = done,
                        ![p] = [@ EXCEPT !.status = "Running",
                                         !.stack = Append(@, val)]]
                 /\ chain' = SubSeq(chain, 1, Len(chain) - 1)
                 /\ UNCHANGED <<mode, pc, result, output, entries>>
        ELSE /\ coros' = [coros EXCEPT ![Top] = done]
             /\ chain' = <<>>
             /\ result' = OkResult(val)
             /\ pc' = AfterRun
             /\ UNCHANGED <<mode, output, entries>>

\* Vec::pop().unwrap() and peek panic when the stack holds fewer than k values
Need(k, body) == IF Len(Cur.stack) < k THEN Panic(coros) ELSE body

(***************************************************************************)
(* Coro::exec: one action per instruction.  Each action is one iteration   *)
(* of the dispatch loop of the running coroutine.                          *)
(***************************************************************************)
ExecUnit == At({"OpUnit"}) /\ Continue(Fetched(Append(Cur.stack, Unit)))
ExecTrue == At({"OpTrue"}) /\ Continue(Fetched(Append(Cur.stack, Bool(TRUE))))
ExecFalse == At({"OpFalse"}) /\ Continue(Fetched(Append(Cur.stack, Bool(FALSE))))

ExecConst ==
    /\ At({"OpConst"})
    /\ Continue(Fetched(Append(Cur.stack, Cur.fun.code.consts[Instr.arg + 1])))

\* Coro::check_bin_operands
check_bin_operands(stack) ==
    IF ~is_num(peek(stack, 1)) \/ ~is_num(peek(stack, 0))
    THEN "operands must be numbers"
    ELSE Ok

\* Coro::check_uni_operands
check_uni_operands(stack) ==
    IF ~is_num(peek(stack, 0)) THEN "operand must be a number" ELSE Ok

\* the body shared by OpAdd, OpSub, OpMul and OpLt; val is the value pushed
\* when both operands are numbers
BinEffect(val) ==
    LET e == check_bin_operands(Cur.stack)
    IN  IF e # Ok
        THEN Fail([coros EXCEPT ![Top] = Fetched(Cur.stack)], e)
        ELSE Continue(Fetched(Append(Pop(Cur.stack, 2), val)))

\* the operands of a binary instruction
Lhs == peek(Cur.stack, 1)
Rhs == peek(Cur.stack, 0)

ExecAdd ==
    /\ At({"OpAdd"})
    /\ Need(2, BinEffect(Frac(Lhs.n * Rhs.d + Rhs.n * Lhs.d, Lhs.d * Rhs.d)))

ExecSub ==
    /\ At({"OpSub"})
    /\ Need(2, BinEffect(Frac(Lhs.n * Rhs.d - Rhs.n * Lhs.d, Lhs.d * Rhs.d)))

ExecMul ==
    /\ At({"OpMul"})
    /\ Need(2, BinEffect(Frac(Lhs.n * Rhs.n, Lhs.d * Rhs.d)))

\* OpLt that compares with <= instead of <
ExecLt_le ==
    /\ At({"OpLt"})
    /\ Need(2, BinEffect(Bool(Lhs.n * Rhs.d <= Rhs.n * Lhs.d)))

ExecLt ==
    /\ At({"OpLt"})
    /\ Need(2, BinEffect(Bool(Lhs.n * Rhs.d < Rhs.n * Lhs.d)))

\* OpDiv that tests the divisor before it tests the types of the operands
ExecDiv_zero_first ==
    /\ At({"OpDiv"})
    /\ Need(2,
         LET e == check_bin_operands(Cur.stack)
             lhs == peek(Cur.stack, 1)
             rhs == peek(Cur.stack, 0)
         IN  IF is_num(rhs) /\ rhs.n = 0
             THEN Fail([coros EXCEPT ![Top] = Fetched(Pop(Cur.stack, 2))],
                       "cannot divide by zero")
             ELSE IF e # Ok
             THEN Fail([coros EXCEPT ![Top] = Fetched(Cur.stack)], e)
             ELSE Continue(Fetched(Append(Pop(Cur.stack, 2),
                                          Frac(lhs.n * rhs.d, lhs.d * rhs.n)))))

ExecDiv ==
    /\ At({"OpDiv"})
    /\ Need(2,
         LET e == check_bin_operands(Cur.stack)
             lhs == peek(Cur.stack, 1)
             rhs == peek(Cur.stack, 0)
         IN  IF e # Ok
             THEN Fail([coros EXCEPT ![Top] = Fetched(Cur.stack)], e)
             ELSE IF rhs.n = 0
             THEN Fail([coros EXCEPT ![Top] = Fetched(Pop(Cur.stack, 2))],
                       "cannot divide by zero")
             ELSE Continue(Fetched(Append(Pop(Cur.stack, 2),
                                          Frac(lhs.n * rhs.d, lhs.d * rhs.n)))))

ExecNeg ==
    /\ At({"OpNeg"})
    /\ Need(1,
         LET e == check_uni_operands(Cur.stack)
             val == peek(Cur.stack, 0)
         IN  IF e # Ok
             THEN Fail([coros EXCEPT ![Top] = Fetched(Cur.stack)], e)
             ELSE Continue(Fetched(Append(Pop(Cur.stack, 1), Frac(-val.n, val.d)))))

ExecNot ==
    /\ At({"OpNot"})
    /\ Need(1, Continue(Fetched(Append(Pop(Cur.stack, 1),
                                       Bool(is_falsey(peek(Cur.stack, 0)))))))

ExecEq ==
    /\ At({"OpEq"})
    /\ Need(2, Continue(Fetched(Append(Pop(Cur.stack, 2),
                   Bool(ValueEq(peek(Cur.stack, 1), peek(Cur.stack, 0)))))))

ExecLoop ==
    /\ At({"OpLoop"})
    /\ Continue([Cur EXCEPT !.ip = @ + 1 - Instr.arg])

ExecJump ==
    /\ At({"OpJump"})
    /\ Continue([Cur EXCEPT !.ip = @ + 1 + Instr.arg])

\* OpBranch that takes the condition off the stack
ExecBranch_pop ==
    /\ At({"OpBranch"})
    /\ Need(1, IF is_falsey(peek(Cur.stack, 0))
               THEN Continue([Cur EXCEPT !.ip = @ + 1 + Instr.arg,
                                         !.stack = Pop(Cur.stack, 1)])
               ELSE Continue(Fetched(Pop(Cur.stack, 1))))

ExecBranch ==
    /\ At({"OpBranch"})
    /\ Need(1, IF is_falsey(peek(Cur.stack, 0))
               THEN Continue([Cur EXCEPT !.ip = @ + 1 + Instr.arg])
               ELSE Continue(Fetched(Cur.stack)))

ExecLoad ==
    /\ At({"OpLoad"})
    /\ LET name == Cur.fun.code.consts[Instr.arg + 1].s
       IN  IF name \in DOMAIN Cur.env
           THEN Continue(Fetched(Append(Cur.stack, Cur.env[name])))
           ELSE Fail([coros EXCEPT ![Top] = Fetched(Cur.stack)],
                     "no binding for name '" \o name \o "'")

\* OpStore on an environment that belongs to the function: the binding
\* shows in every coroutine created from the same definition
ExecStore_shared ==
    /\ At({"OpStore"})
    /\ Need(1,
         LET name == Cur.fun.code.consts[Instr.arg + 1].s
             val == peek(Cur.stack, 0)
         IN  /\ coros' = [c \in DOMAIN coros |->
                            IF c = Top
                            THEN [Fetched(Append(Pop(Cur.stack, 1), Unit))
                                     EXCEPT !.env = insert(@, name, val)]
                            ELSE IF coros[c].fun = Cur.fun
                            THEN [coros[c] EXCEPT !.env = insert(@, name, val)]
                            ELSE coros[c]]
             /\ UNCHANGED <<mode, pc, chain, result, output, entries>>)

ExecStore ==
    /\ At({"OpStore"})
    /\ Need(1,
         LET name == Cur.fun.code.consts[Instr.arg + 1].s
             val == peek(Cur.stack, 0)
         IN  Continue([Fetched(Append(Pop(Cur.stack, 1), Unit))
                          EXCEPT !.env = insert(@, name, val)]))

ExecDefine ==
    /\ At({"OpDefine"})
    /\ LET val == Cur.fun.code.consts[Instr.arg + 1]
       IN  Continue([Fetched(Append(Cur.stack, Unit))
                        EXCEPT !.env = insert(@, FnName(val.def), val)])

\* OpCreate whose coroutine starts with a copy of the environment of the
\* coroutine that creates it
ExecCreate_inherit ==
    /\ At({"OpCreate"})
    /\ LET name == Cur.fun.code.consts[Instr.arg + 1].s
           cs == [coros EXCEPT ![Top] = Fetched(Cur.stack)]
       IN  IF name \notin DOMAIN Cur.env
           THEN Fail(cs, "no binding for name '" \o name \o "'")
           ELSE IF ~is_fn(Cur.env[name])
           THEN Fail(cs, "'" \o name \o "' is not a function")
           ELSE /\ Len(coros) < MaxCoros
                /\ coros' = Append([coros EXCEPT
                                      ![Top] = Fetched(Append(Cur.stack,
                                                          Co(Len(coros) + 1)))],
                                   [Coro_new(Cur.env[name].def)
                                       EXCEPT !.env = Cur.env])
                /\ UNCHANGED <<mode, pc, chain, result, output, entries>>

ExecCreate ==
    /\ At({"OpCreate"})
    /\ LET name == Cur.fun.code.consts[Instr.arg + 1].s
           cs == [coros EXCEPT ![Top] = Fetched(Cur.stack)]
       IN  IF name \notin DOMAIN Cur.env
           THEN Fail(cs, "no binding for name '" \o name \o "'")
           ELSE IF ~is_fn(Cur.env[name])
           THEN Fail(cs, "'" \o name \o "' is not a function")
           ELSE /\ Len(coros) < MaxCoros
                /\ coros' = Append([coros EXCEPT
                                      ![Top] = Fetched(Append(Cur.stack,
                                                          Co(Len(coros) + 1)))],
                                   Coro_new(Cur.env[name].def))
                /\ UNCHANGED <<mode, pc, chain, result, output, entries>>

\* the arguments of OpResume collected with push instead of insert(0, ..):
\* in reverse order
resume_args_rev(stack, num) == [i \in 1..num |-> stack[Len(stack) - i + 1]]

\* OpResume(num): the num arguments in source order, and the value under them
resume_args(stack, num) == SubSeq(stack, Len(stack) - num + 1, Len(stack))
resume_target(stack, num) == stack[Len(stack) - num]

\* OpResume that marks the executing coroutine Suspended before it tests
\* whether the value under the arguments is a coroutine
ExecResume_suspend_first ==
    /\ At({"OpResume"})
    /\ Need(Instr.arg + 1,
         LET num == Instr.arg
             args == resume_args(Cur.stack, num)
             coro == resume_target(Cur.stack, num)
             popped == Fetched(Pop(Cur.stack, num + 1))
             cs == [coros EXCEPT ![Top] = [popped EXCEPT !.status = "Suspended"]]
         IN  IF ~is_co(coro)
             THEN Fail(cs, "only coroutines can be resumed")
             ELSE IF coro.c \in Borrowed
             THEN Panic(cs)
             ELSE LET r == resume_enter(cs[coro.c], args)
                  IN  IF r.err # Ok
                      THEN Fail([cs EXCEPT ![coro.c] = r.co], r.err)
                      ELSE /\ coros' = [cs EXCEPT ![coro.c] = r.co]
                           /\ chain' = Append(chain, coro.c)
                           /\ UNCHANGED <<mode, pc, result, output, entries>>)

ExecResume ==
    /\ At({"OpResume"})
    /\ Need(Instr.arg + 1,
         LET num == Instr.arg
             args == resume_args(Cur.stack, num)
             coro == resume_target(Cur.stack, num)
             popped == Fetched(Pop(Cur.stack, num + 1))
             cs == [coros EXCEPT ![Top] = [popped EXCEPT !.status = "Suspended"]]
         IN  IF ~is_co(coro)
             THEN Fail([coros EXCEPT ![Top] = popped],
                       "only coroutines can be resumed")
             ELSE IF coro.c \in Borrowed
             THEN Panic(cs)
             ELSE LET r == resume_enter(cs[coro.c], args)
                  IN  IF r.err # Ok
                      THEN Fail([cs EXCEPT ![coro.c] = r.co], r.err)
                      ELSE /\ coros' = [cs EXCEPT ![coro.c] = r.co]
                           /\ chain' = Append(chain, coro.c)
                           /\ UNCHANGED <<mode, pc, result, output, entries>>)

\* OpYield that returns the top of the stack without popping it
ExecYield_peek ==
    /\ At({"OpYield"})
    /\ Need(1, Return([Fetched(Cur.stack) EXCEPT !.status = "Suspended"],
                      peek(Cur.stack, 0)))

ExecYield ==
    /\ At({"OpYield"})
    /\ Need(1, Return([Fetched(Pop(Cur.stack, 1)) EXCEPT !.status = "Suspended"],
                      peek(Cur.stack, 0)))

\* OpPrint whose line comes out ahead of the lines printed before it
ExecPrint_prepend ==
    /\ At({"OpPrint"})
    /\ Need(1,
         LET val == peek(Cur.stack, 0)
             cs == [coros EXCEPT ![Top] = Fetched(Append(Pop(Cur.stack, 1), Unit))]
         IN  IF is_co(val) /\ val.c \in Borrowed
             THEN Panic(cs)
             ELSE /\ coros' = cs
                  /\ output' = <<Display(val, cs)>> \o output
                  /\ UNCHANGED <<mode, pc, chain, result, entries>>)

ExecPrint ==
    /\ At({"OpPrint"})
    /\ Need(1,
         LET val == peek(Cur.stack, 0)
             cs == [coros EXCEPT ![Top] = Fetched(Append(Pop(Cur.stack, 1), Unit))]
         IN  IF is_co(val) /\ val.c \in Borrowed
             THEN Panic(cs)
             ELSE /\ coros' = cs
                  /\ output' = Append(output, Display(val, cs))
                  /\ UNCHANGED <<mode, pc, chain, result, entries>>)

\* OpPop that also marks the executing coroutine Suspended
ExecPop_suspend ==
    /\ At({"OpPop"})
    /\ Continue([Fetched(IF Len(Cur.stack) > 0 THEN Pop(Cur.stack, 1) ELSE <<>>)
                    EXCEPT !.status = "Suspended"])

ExecPop ==
    /\ At({"OpPop"})
    /\ Continue(Fetched(IF Len(Cur.stack) > 0 THEN Pop(Cur.stack, 1) ELSE <<>>))

ExecRet ==
    /\ At({"OpRet"})
    /\ IF Len(Cur.stack) > 0
       THEN Return([Fetched(Pop(Cur.stack, 1)) EXCEPT !.status = "Done"],
                   peek(Cur.stack, 0))
       ELSE Return([Fetched(Cur.stack) EXCEPT !.status = "Done"], Unit)

\* the test of the while of exec fails: exec returns Ok(Unit)
ExecEnd ==
    /\ pc = "exec"
    /\ Cur.ip >= code_len(Cur.fun.code)
    /\ Return(Cur, Unit)

(***************************************************************************)
(* vm.rs CoVM and main.rs: the drivers.                                    *)
(***************************************************************************)
\* CoVM::run, up to the dispatch loop of the top-level coroutine
Run ==
    /\ pc \in {"built", "rewound"}
    /\ LET r == resume_enter(coros[1], <<>>)
       IN  IF r.err # Ok
           THEN /\ coros' = [coros EXCEPT ![1] = r.co]
                /\ result' = ErrResult(r.err)
                /\ pc' = AfterRun
                /\ UNCHANGED <<mode, chain, output, entries>>
           ELSE /\ coros' = [coros EXCEPT ![1] = r.co]
                /\ chain' = <<1>>
                /\ pc' = "exec"
                /\ UNCHANGED <<mode, result, output, entries>>

\* run_repl: an entry that compiles; CoVM::compile then CoVM::rewind
Rewind(src) ==
    /\ mode = "repl" /\ pc = "read" /\ entries < MaxEntries
    /\ parse(src).ok
    /\ coros' = [coros EXCEPT
                    ![1] = rewind(@, compile(parse(src).ast, <<entries + 1>>))]
    /\ entries' = entries + 1
    /\ pc' = "rewound"
    /\ result' = NoResult
    /\ UNCHANGED <<mode, chain, output>>

\* run_repl: an entry that does not compile is reported and dropped
ReplCompileErr(src) ==
    /\ mode = "repl" /\ pc = "read" /\ entries < MaxEntries
    /\ ~parse(src).ok
    /\ entries' = entries + 1
    /\ result' = CompileErrResult
    /\ UNCHANGED <<mode, pc, coros, chain, output>>

\* repl_read: end of input
ReplEof ==
    /\ mode = "repl" /\ pc = "read"
    /\ pc' = "exit"
    /\ UNCHANGED <<mode, coros, chain, result, output, entries>>

\* run_file up to CoVM::build: eval of a source that compiles or not
InitFile(src) ==
    /\ mode = "file"
    /\ entries = 0
    /\ chain = <<>>
    /\ output = <<>>
    /\ IF parse(src).ok
       THEN /\ coros = <<Coro_new(compile(parse(src).ast, <<0>>))>>
            /\ pc = "built"
            /\ result = NoResult
       ELSE /\ coros = <<>>
            /\ pc = "exit"
            /\ result = CompileErrResult

\* run_repl up to the loop: comain = CoVM::build("")
InitRepl ==
    /\ mode = "repl"
    /\ entries = 0
    /\ chain = <<>>
    /\ output = <<>>
    /\ coros = <<Coro_new(compile(<<>>, <<0>>))>>
    /\ pc = "read"
    /\ result = NoResult

Init == InitRepl \/ \E src \in Sources : InitFile(src)

Step ==
    \/ ExecUnit \/ ExecTrue \/ ExecFalse \/ ExecConst
    \/ ExecAdd \/ ExecSub \/ ExecMul \/ ExecDiv \/ ExecNeg \/ ExecNot
    \/ ExecLt \/ ExecEq
    \/ ExecLoop \/ ExecJump \/ ExecBranch
    \/ ExecLoad \/ ExecStore \/ ExecDefine \/ ExecCreate
    \/ ExecResume \/ ExecYield \/ ExecPrint \/ ExecPop \/ ExecRet
    \/ ExecEnd

Next ==
    \/ Step
    \/ Run
    \/ \E src \in Sources : Rewind(src)
    \/ \E src \in Sources : ReplCompileErr(src)
    \/ ReplEof

Spec == Init /\ [][Next]_vars

(***************************************************************************)
(* run_file on the sources that print one expression.  Every source starts *)
(* with the same four bindings,                                            *)
(*     def f = 1; def k = 1; let g = create f; let h = create f;           *)
(* and ends with print (l op r), print (op x) or                           *)
(* print (if x then 1 else 2 end), where the operands are literals or the  *)
(* names f, k, g, h.                                                       *)
(***************************************************************************)
Prelude ==
    << BindDef("f", <<>>, CmdExpr(N(1))),
       BindDef("k", <<>>, CmdExpr(N(1))),
       BindLet("g", CmdCreate("f")),
       BindLet("h", CmdCreate("f")) >>

Operands ==
    { ExprUnit, ExprBool(TRUE), ExprBool(FALSE), N(0), N(1), ExprStr(""),
      ExprStr("a"), Id("f"), Id("k"), Id("g"), Id("h") }

BinKinds == {"Add", "Sub", "Mul", "Div", "Lt", "Eq"}
UnKinds == {"Neg", "Not"}

ExprPrograms ==
    {Prelude \o << BindCmd(CmdPrint(ExprBin(k, l, r))) >> :
        k \in BinKinds, l \in Operands, r \in Operands}
    \cup {Prelude \o << BindCmd(CmdPrint(ExprUn(k, x))) >> :
        k \in UnKinds, x \in Operands}
    \cup {Prelude \o << BindCmd(CmdPrint(Grp(CmdIf(x, N(1), N(0))))) >> :
        x \in Operands}

\* run_file up to CoVM::build for one of these sources
InitExpr ==
    /\ mode = "file"
    /\ entries = 0
    /\ chain = <<>>
    /\ output = <<>>
    /\ \E ast \in ExprPrograms : coros = <<Coro_new(compile(ast, <<0>>))>>
    /\ pc = "built"
    /\ result = NoResult

\* the instructions these sources compile to
ExprNext ==
    \/ Run
    \/ ExecUnit \/ ExecTrue \/ ExecFalse \/ ExecConst
    \/ ExecAdd \/ ExecSub \/ ExecMul \/ ExecDiv \/ ExecNeg \/ ExecNot
    \/ ExecLt \/ ExecEq
    \/ ExecJump \/ ExecBranch
    \/ ExecLoad \/ ExecStore \/ ExecDefine \/ ExecCreate
    \/ ExecPrint \/ ExecPop \/ ExecRet

ExprSpec == InitExpr /\ [][ExprNext]_vars

(***************************************************************************)
(* Vocabulary of the properties.                                           *)
(***************************************************************************)
Ids == 1..Len(coros)

NonSuspendedMsg == "tried to resume a non-suspended coroutine"

\* the running coroutine is about to execute OpResume on a coroutine value
ResumeStep ==
    /\ At({"OpResume"})
    /\ Len(Cur.stack) > Instr.arg
    /\ Cur.stack[Len(Cur.stack) - Instr.arg].t = "Co"

\* the coroutine that OpResume names and the arguments it passes, in the
\* order they were pushed
Target == Cur.stack[Len(Cur.stack) - Instr.arg].c
Args == SubSeq(Cur.stack, Len(Cur.stack) - Instr.arg + 1, Len(Cur.stack))

\* the step enters the dispatch loop of c through resume
Entered(c) == chain' = Append(chain, c)

\* the step is CoVM::rewind of the top-level coroutine
RewindStep == pc = "read" /\ pc' = "rewound"

\* the running coroutine hands val to whoever resumed it: the OpResume of its
\* caller pushes it, or run returns it to the driver
Delivered(val) ==
    IF Len(chain) > 1
    THEN LET p == chain[Len(chain) - 1]
         IN  /\ coros'[p].stack = Append(coros[p].stack, val)
             /\ chain' = SubSeq(chain, 1, Len(chain) - 1)
    ELSE result' = OkResult(val) /\ chain' = <<>>

\* c is suspended by the OpYield just before its ip
SuspendedAtYield(c) ==
    /\ coros[c].status = "Suspended"
    /\ coros[c].ip > 0
    /\ coros[c].ip <= code_len(coros[c].fun.code)
    /\ coros[c].fun.code.instrs[coros[c].ip].op = "OpYield"

(***************************************************************************)
(* C1.  The status of a coroutine that is never rewound starts as          *)
(* Suspended and only moves Suspended -> Running on entry to resume or     *)
(* when the nested Resume it awaits returns, Running -> Suspended on its   *)
(* own Yield or Resume, and Running -> Done on its own Ret or at the end   *)
(* of its code.                                                            *)
(***************************************************************************)
StatusMove(c) ==
    LET a == coros[c].status
        b == coros'[c].status
    IN  \/ a = b
        \/ /\ a = "Suspended" /\ b = "Running"
           /\ \/ pc \in {"built", "rewound"} /\ c = 1 /\ chain' = <<1>>
              \/ ResumeStep /\ c = Target /\ Entered(c)
              \/ /\ Len(chain) > 1 /\ c = chain[Len(chain) - 1]
                 /\ chain' = SubSeq(chain, 1, Len(chain) - 1)
        \/ /\ a = "Running" /\ b = "Suspended"
           /\ c = Top /\ At({"OpYield", "OpResume"})
        \/ /\ a = "Running" /\ b = "Done"
           /\ pc = "exec" /\ c = Top
           /\ At({"OpRet"}) \/ Cur.ip >= code_len(Cur.fun.code)

C1_StatusWalk ==
    /\ \A c \in Ids : coros[c].status = "Suspended"
    /\ [][\A c \in 1..Len(coros') :
             IF c > Len(coros)
             THEN coros'[c].status = "Suspended"
             ELSE (c = 1 /\ RewindStep) \/ StatusMove(c)]_vars

\* a created coroutine has yielded, was resumed again and has finished
C1_Witness ==
    \E c \in Ids :
        /\ c > 1
        /\ coros[c].status = "Done"
        /\ \E i \in 1..code_len(coros[c].fun.code) :
               coros[c].fun.code.instrs[i].op = "OpYield"

(***************************************************************************)
(* C2.  While a dispatch loop executes, exactly one coroutine is Running:  *)
(* the one on top of the native call stack; every other coroutine is       *)
(* Suspended or Done.                                                      *)
(***************************************************************************)
C2_OneRunning ==
    pc = "exec" => {c \in Ids : coros[c].status = "Running"} = {Top}

(***************************************************************************)
(* C3.  A Resume of a coroutine that is not Suspended fails with the       *)
(* non-suspended error and leaves that coroutine (ip, status, environment, *)
(* stack) as it was; none of its instructions runs.                        *)
(***************************************************************************)
C3_NonSuspendedFails ==
    [][(ResumeStep /\ Target # Top /\ coros[Target].status # "Suspended")
         => /\ result' = ErrResult(NonSuspendedMsg)
            /\ coros'[Target] = coros[Target]
            /\ chain' = <<>>
            /\ output' = output]_vars

\* the REPL has resumed a coroutine that an earlier error left Running
C3_Witness ==
    /\ mode = "repl" /\ pc = "read"
    /\ result = ErrResult(NonSuspendedMsg)
    /\ \E c \in Ids : c > 1 /\ coros[c].status = "Running"

(***************************************************************************)
(* C4.  A coroutine that has reached Done stays Done: every Resume of it   *)
(* fails with the non-suspended error.  Only rewind of the top-level       *)
(* coroutine leaves Done.                                                  *)
(***************************************************************************)
C4_DoneForever ==
    [][/\ \A c \in Ids :
            coros[c].status = "Done"
                => \/ coros'[c].status = "Done"
                   \/ c = 1 /\ RewindStep
       /\ (ResumeStep /\ coros[Target].status = "Done")
            => result' = ErrResult(NonSuspendedMsg)]_vars

\* a Resume of a finished coroutine has failed
C4_Witness ==
    /\ result = ErrResult(NonSuspendedMsg)
    /\ \E c \in Ids : c > 1 /\ coros[c].status = "Done"
    /\ \A c \in Ids : coros[c].status # "Running"

\* the cell of the target is free, so OpResume reaches the call of
\* Coro::resume on it
ResumeCall == ResumeStep /\ Target # Top /\ Target \notin Borrowed

\* the message of check_arity
ArityMsg(n, got) ==
    "expected " \o ToString(n) \o " arguments but got " \o ToString(got)
    \o " when resuming coroutine"

\* what OpYield does to the coroutine that executes it and to its resumer
YieldEffect ==
    (At({"OpYield"}) /\ Len(Cur.stack) > 0)
        => /\ coros'[Top].status = "Suspended"
           /\ coros'[Top].ip = Cur.ip + 1
           /\ coros'[Top].stack = Pop(Cur.stack, 1)
           /\ coros'[Top].env = Cur.env
           /\ Delivered(peek(Cur.stack, 0))

\* the step is a successful resume of c that continues where c stands: same
\* ip, same environment, the same stack under the one value resume pushes
ResumedInPlace(c) ==
    /\ Entered(c) \/ (c = 1 /\ chain' = <<1>>)
    /\ coros'[c].status = "Running"
    /\ coros'[c].ip = coros[c].ip
    /\ coros'[c].env = coros[c].env
    /\ Len(coros'[c].stack) = Len(coros[c].stack) + 1
    /\ Pop(coros'[c].stack, 1) = coros[c].stack

\* a coroutine suspended at a Yield and off the native call stack
Parked(c) == SuspendedAtYield(c) /\ \A i \in 1..Len(chain) : chain[i] # c

(***************************************************************************)
(* C5 as claimed.  Yield pops v, suspends C with ip after the Yield and    *)
(* gives v to the resume that entered C; the next successful resume of C   *)
(* continues at that instruction with the environment and the rest of the  *)
(* stack as they were at the Yield (nothing touches C in between).         *)
(***************************************************************************)
C5_YieldResumeAsClaimed ==
    [][/\ YieldEffect
       /\ \A c \in Ids :
            Parked(c) => (coros'[c] = coros[c] \/ ResumedInPlace(c))]_vars

(***************************************************************************)
(* C5 as amended.  The same, unless C is rewound before it is resumed:     *)
(* rewind of the top-level coroutine resets ip to 0 and clears the stack,  *)
(* so the run that follows starts the new function from its first          *)
(* instruction.                                                            *)
(***************************************************************************)
C5_YieldResume ==
    [][/\ YieldEffect
       /\ \A c \in Ids :
            Parked(c) => \/ coros'[c] = coros[c]
                         \/ ResumedInPlace(c)
                         \/ c = 1 /\ RewindStep]_vars

\* a coroutine has just been resumed after its Yield
C5_Witness ==
    /\ pc = "exec"
    /\ Len(chain) > 1
    /\ Cur.status = "Running"
    /\ Cur.ip > 0
    /\ Cur.fun.code.instrs[Cur.ip].op = "OpYield"
    /\ Cur.env # EmptyEnv

(***************************************************************************)
(* C6.  A coroutine suspended at a Yield that is resumed with one argument *)
(* v continues with v on top of its stack, as the value of the yield       *)
(* expression; resumed with no argument it continues with Unit there.      *)
(***************************************************************************)
C6_YieldValue ==
    [][(ResumeCall /\ SuspendedAtYield(Target) /\ Len(Args) <= 1)
         => /\ Entered(Target)
            /\ coros'[Target].ip = coros[Target].ip
            /\ coros'[Target].stack =
                   Append(coros[Target].stack,
                          IF Len(Args) = 1 THEN Args[1] ELSE Unit)]_vars

\* the yield expression of a resumed coroutine evaluates to the argument 7
C6_Witness ==
    /\ pc = "exec"
    /\ Len(chain) > 1
    /\ Cur.ip > 0
    /\ Cur.fun.code.instrs[Cur.ip].op = "OpYield"
    /\ Cur.stack # <<>>
    /\ peek(Cur.stack, 0) = Num(7)

\* the first resume of the target with as many arguments as parameters
FirstResume ==
    /\ ResumeCall
    /\ coros[Target].status = "Suspended"
    /\ coros[Target].ip = 0
    /\ Len(Args) = arity(coros[Target].fun)

(***************************************************************************)
(* C7 as claimed.  On the first resume with as many arguments as           *)
(* parameters, parameter i is bound to the i-th argument, for every i, and *)
(* nothing is pushed on the stack of the callee.                           *)
(***************************************************************************)
C7_ParamsBoundAsClaimed ==
    [][FirstResume
         => /\ Entered(Target)
            /\ coros'[Target].stack = <<>>
            /\ \A i \in 1..Len(Args) :
                 LET name == coros[Target].fun.params[i]
                 IN  /\ name \in DOMAIN coros'[Target].env
                     /\ coros'[Target].env[name] = Args[i]]_vars

(***************************************************************************)
(* C7 as amended.  On the first resume with as many arguments as           *)
(* parameters, every parameter name is bound to the argument at the last   *)
(* position where that name occurs in the parameter list (so parameter i   *)
(* is bound to the i-th argument when no later parameter has its name),    *)
(* every other name keeps its binding, and nothing is pushed on the stack  *)
(* of the callee.                                                          *)
(***************************************************************************)
C7_ParamsBound ==
    [][FirstResume
         => LET params == coros[Target].fun.params
                env == coros'[Target].env
            IN  /\ Entered(Target)
                /\ coros'[Target].stack = <<>>
                /\ coros'[Target].ip = 0
                /\ DOMAIN env =
                       DOMAIN coros[Target].env \cup {params[i] : i \in 1..Len(Args)}
                /\ \A i \in 1..Len(Args) :
                     (\A j \in (i + 1)..Len(Args) : params[j] # params[i])
                         => env[params[i]] = Args[i]
                /\ \A n \in DOMAIN coros[Target].env :
                     (\A i \in 1..Len(Args) : params[i] # n)
                         => env[n] = coros[Target].env[n]]_vars

\* a two-parameter coroutine stands at its first instruction with a = 1, b = 2
C7_Witness ==
    /\ pc = "exec"
    /\ Len(chain) = 2
    /\ Cur.ip = 0
    /\ Cur.stack = <<>>
    /\ Cur.fun.params = <<"a", "b">>
    /\ DOMAIN Cur.env = {"a", "b"}
    /\ Cur.env["a"] = Num(1)
    /\ Cur.env["b"] = Num(2)

(***************************************************************************)
(* C8.  A first resume with a number of arguments other than the arity     *)
(* fails with the arity error and binds nothing: the coroutine stays       *)
(* Suspended at ip 0 with an empty stack and its environment unchanged, so *)
(* a later resume with the right number starts it at its first             *)
(* instruction.                                                            *)
(***************************************************************************)
C8_FirstArityError ==
    [][(/\ ResumeCall
        /\ coros[Target].status = "Suspended"
        /\ coros[Target].ip = 0
        /\ Len(Args) # arity(coros[Target].fun))
         => /\ result' = ErrResult(ArityMsg(arity(coros[Target].fun), Len(Args)))
            /\ chain' = <<>>
            /\ coros'[Target] = coros[Target]
            /\ coros'[Target].stack = <<>>]_vars

\* a coroutine created by an earlier entry, whose first resume failed there,
\* has been started by this entry with both parameters bound
C8_Witness ==
    /\ mode = "repl" /\ entries = 2 /\ pc = "exec"
    /\ Len(chain) = 2
    /\ Cur.fun.code.rc[1] = 1
    /\ Cur.fun.params = <<"a", "b">>
    /\ Cur.ip = 0
    /\ Cur.status = "Running"
    /\ DOMAIN Cur.env = {"a", "b"}

(***************************************************************************)
(* C9.  A resume of a started coroutine (ip # 0) with more than one        *)
(* argument fails with the arity error that expects 1; nothing is pushed   *)
(* and the coroutine stays Suspended at the same ip.                       *)
(***************************************************************************)
C9_LaterArityError ==
    [][(/\ ResumeCall
        /\ coros[Target].status = "Suspended"
        /\ coros[Target].ip # 0
        /\ Len(Args) > 1)
         => /\ result' = ErrResult(ArityMsg(1, Len(Args)))
            /\ chain' = <<>>
            /\ coros'[Target] = coros[Target]]_vars

\* a coroutine that refused two arguments in an earlier entry has been
\* resumed by this entry and runs on from its Yield
C9_Witness ==
    /\ mode = "repl" /\ entries = 2 /\ pc = "exec"
    /\ Len(chain) = 2
    /\ Cur.fun.code.rc[1] = 1
    /\ Cur.fun.name = "h"
    /\ Cur.ip > 0
    /\ Cur.status = "Running"

(***************************************************************************)
(* C10.  When the dispatch loop executes Ret or runs off the end of the    *)
(* code, resume returns the popped top of the stack, or Unit if the stack  *)
(* is empty, and the coroutine is Done when resume returns.                *)
(***************************************************************************)
C10_RetValue ==
    [][(pc = "exec" /\ (At({"OpRet"}) \/ Cur.ip >= code_len(Cur.fun.code)))
         => /\ Delivered(IF Len(Cur.stack) > 0 THEN peek(Cur.stack, 0) ELSE Unit)
            /\ coros'[Top].status = "Done"
            /\ coros'[Top].stack = Pop(Cur.stack, IF Len(Cur.stack) > 0 THEN 1 ELSE 0)]_vars

\* the empty code object has run: Unit, and the coroutine is Done
C10_Witness ==
    /\ mode = "file" /\ pc = "exit"
    /\ Len(coros) = 1
    /\ code_len(coros[1].fun.code) = 0
    /\ result = OkResult(Unit)
    /\ coros[1].status = "Done"

\* the coroutines that await a nested Resume: the chain without its top
Awaiting == {chain[i] : i \in 1..(Len(chain) - 1)}

\* the value exec of the running coroutine returns when it yields or finishes
Produced ==
    IF At({"OpYield"}) \/ (At({"OpRet"}) /\ Len(Cur.stack) > 0)
    THEN Cur.stack[Len(Cur.stack)]
    ELSE Unit

\* the running coroutine yields or finishes and control goes back to the
\* OpResume of its caller
ReturnStep ==
    /\ pc = "exec" /\ Len(chain) > 1
    /\ chain' = SubSeq(chain, 1, Len(chain) - 1)

(***************************************************************************)
(* C11.  A coroutine P that executes Resume(n) on a coroutine pops the n   *)
(* arguments and the Co and is Suspended as long as the dispatch loop of   *)
(* the callee runs; when the callee yields or finishes P is Running again, *)
(* stands right after its Resume and has exactly the value the callee      *)
(* produced pushed on its stack: n + 1 values popped, one pushed.          *)
(***************************************************************************)
C11_CallerSuspended ==
    /\ [](pc = "exec" => \A p \in Awaiting : coros[p].status = "Suspended")
    /\ [][/\ (ResumeStep /\ Entered(Target))
                => /\ coros'[Top].status = "Suspended"
                   /\ coros'[Top].stack = Pop(Cur.stack, Instr.arg + 1)
          /\ ReturnStep
                => LET p == chain[Len(chain) - 1]
                   IN  /\ coros'[p].status = "Running"
                       /\ coros'[p].stack = Append(coros[p].stack, Produced)
                       /\ coros'[p].ip = coros[p].ip
                       /\ coros[p].fun.code.instrs[coros[p].ip].op = "OpResume"]_vars

\* a created coroutine has just got 10 back from the coroutine it resumed
C11_Witness ==
    /\ pc = "exec" /\ Len(chain) = 2
    /\ Cur.status = "Running"
    /\ Cur.ip > 0 /\ Cur.fun.code.instrs[Cur.ip].op = "OpResume"
    /\ Len(Cur.stack) > 0 /\ Cur.stack[Len(Cur.stack)] = Num(10)
    /\ \E c \in Ids : c # Top /\ SuspendedAtYield(c)

\* the name an OpLoad or OpCreate looks up
Operand == Cur.fun.code.consts[Instr.arg + 1]

\* the message of the runtime error the instruction about to run raises, Ok
\* when it raises none of these
Raised ==
    IF ~AtInstr THEN Ok
    ELSE IF Instr.op = "OpDiv" /\ Len(Cur.stack) > 1
    THEN IF Cur.stack[Len(Cur.stack)].t # "Num"
            \/ Cur.stack[Len(Cur.stack) - 1].t # "Num"
         THEN "operands must be numbers"
         ELSE IF Cur.stack[Len(Cur.stack)].n = 0
         THEN "cannot divide by zero" ELSE Ok
    ELSE IF Instr.op \in {"OpLoad", "OpCreate"}
    THEN IF Operand.s \notin DOMAIN Cur.env
         THEN "no binding for name '" \o Operand.s \o "'"
         ELSE IF Instr.op = "OpCreate" /\ Cur.env[Operand.s].t # "Fn"
         THEN "'" \o Operand.s \o "' is not a function" ELSE Ok
    ELSE IF Instr.op = "OpResume" /\ Len(Cur.stack) > Instr.arg
    THEN IF ~ResumeStep THEN "only coroutines can be resumed"
         ELSE IF ~ResumeCall THEN Ok
         ELSE IF coros[Target].status # "Suspended" THEN NonSuspendedMsg
         ELSE IF coros[Target].ip = 0
         THEN IF Len(coros[Target].fun.params) # Instr.arg
              THEN ArityMsg(Len(coros[Target].fun.params), Instr.arg) ELSE Ok
         ELSE IF Instr.arg > 1 THEN ArityMsg(1, Instr.arg) ELSE Ok
    ELSE Ok

\* the step ends the call into the VM with a runtime error
ErrorStep == pc = "exec" /\ result'.kind = "runtime_err"

(***************************************************************************)
(* C12.  The first runtime error raised in a coroutine ends the dispatch   *)
(* loop of that coroutine and of every caller on the chain of nested       *)
(* Resumes: run returns that error to the driver, no caller gets a result  *)
(* pushed, nothing more is printed and no coroutine executes another       *)
(* instruction until the driver calls run again.                           *)
(***************************************************************************)
C12_ErrorAborts ==
    [][/\ (pc = "exec" /\ Raised # Ok) => result' = ErrResult(Raised)
       /\ ErrorStep
            => /\ Raised # Ok
               /\ chain' = <<>>
               /\ pc' \in {"read", "exit"}
               /\ output' = output
               /\ \A p \in Awaiting : coros'[p] = coros[p]
               /\ Len(coros'[Top].stack) <= Len(Cur.stack)
       /\ pc # "exec"
            => /\ output' = output
               /\ \A c \in Ids : c # 1 => coros'[c] = coros[c]
               /\ coros'[1].stack = coros[1].stack \/ RewindStep]_vars

\* a division by zero two Resumes deep has ended the run: the last line
\* printed is the one before the failing Resume
C12_Witness ==
    /\ result = ErrResult("cannot divide by zero")
    /\ Len(coros) > 2
    /\ coros[1].status = "Suspended"
    /\ \E c, d \in Ids :
          /\ c > 1 /\ coros[c].status = "Suspended" /\ coros[c].ip > 0
          /\ d > 1 /\ coros[d].status = "Running"
    /\ Len(output) > 0 /\ output[Len(output)] = "\"o\""

\* what every runtime error leaves alone: the callers that await a nested
\* Resume stay Suspended and the coroutines off the chain keep their status
OthersKeepStatus ==
    /\ \A p \in Awaiting : coros'[p].status = "Suspended"
    /\ \A c \in Ids : c # Top => coros'[c].status = coros[c].status

(***************************************************************************)
(* C13 as claimed.  A runtime error changes no status while it unwinds:    *)
(* the coroutine whose instruction failed is left Running and every caller *)
(* awaiting a nested Resume is left Suspended.                             *)
(***************************************************************************)
C13_StatusKeptAsClaimed ==
    [][ErrorStep => (coros'[Top].status = "Running" /\ OthersKeepStatus)]_vars

(***************************************************************************)
(* C13 as amended.  A runtime error changes no status while it unwinds.  A *)
(* coroutine whose own instruction raised the error is left Running; a     *)
(* coroutine whose Resume of a coroutine failed in the status or arity     *)
(* check of the callee was marked Suspended before the call and is left    *)
(* Suspended, as is every caller awaiting a nested Resume; the callee and  *)
(* all other coroutines keep their status.                                 *)
(***************************************************************************)
C13_StatusKept ==
    [][ErrorStep
         => /\ coros'[Top].status = IF ResumeStep THEN "Suspended" ELSE "Running"
            /\ OthersKeepStatus]_vars

\* a created coroutine is left Suspended right after its own Resume, which
\* failed because its target was Done
C13_Witness ==
    /\ result = ErrResult(NonSuspendedMsg)
    /\ \E c, d \in Ids :
          /\ c > 1 /\ coros[c].status = "Suspended" /\ coros[c].ip > 0
          /\ coros[c].fun.code.instrs[coros[c].ip].op = "OpResume"
          /\ d > 1 /\ coros[d].status = "Done"
    /\ coros[1].status = "Suspended"

\* the coroutines on the active resume chain
OnChain == {chain[i] : i \in 1..Len(chain)}

\* the instruction about to run is a Resume, or a Print, of a handle to a
\* coroutine on the active resume chain
AliasedResume == ResumeStep /\ Target \in OnChain
AliasedPrint ==
    /\ At({"OpPrint"}) /\ Len(Cur.stack) > 0
    /\ Cur.stack[Len(Cur.stack)].t = "Co"
    /\ Cur.stack[Len(Cur.stack)].c \in OnChain

(***************************************************************************)
(* C14.  Aliased access to a coroutine during a nested resume is           *)
(* tolerated: a Resume or a Print of a handle to a coroutine on the active *)
(* resume chain gives a value or a runtime error and never aborts the      *)
(* process.                                                                *)
(***************************************************************************)
C14_AliasTolerated ==
    [][(AliasedResume \/ AliasedPrint) => pc' # "abort"]_vars

\* the running coroutine is about to execute OpResume and the value under
\* the arguments is not a coroutine
NotCoResume ==
    /\ At({"OpResume"})
    /\ Len(Cur.stack) > Instr.arg
    /\ Cur.stack[Len(Cur.stack) - Instr.arg].t # "Co"

(***************************************************************************)
(* C15.  Resume(n) of a value that is not a coroutine fails with 'only     *)
(* coroutines can be resumed'; the executing coroutine keeps its status    *)
(* (it is not marked Suspended) and no other coroutine is resumed, created *)
(* or changed.                                                             *)
(***************************************************************************)
C15_OnlyCoroutines ==
    [][NotCoResume
         => /\ result' = ErrResult("only coroutines can be resumed")
            /\ chain' = <<>>
            /\ coros'[Top].status = "Running"
            /\ coros'[Top].status = Cur.status
            /\ Len(coros') = Len(coros)
            /\ \A c \in Ids : c # Top => coros'[c] = coros[c]]_vars

\* a created coroutine has executed Resume on a number
C15_Witness ==
    /\ result = ErrResult("only coroutines can be resumed")
    /\ coros[1].status = "Suspended"
    /\ \E c \in Ids :
          /\ c > 1 /\ coros[c].status = "Running" /\ coros[c].ip > 0
          /\ coros[c].fun.code.instrs[coros[c].ip].op = "OpResume"
          /\ coros[c].stack = <<>>

\* the functions run_repl can hand to rewind for its next entry
Compiled ==
    {compile(parse(src).ast, <<entries + 1>>) : src \in {x \in Sources : parse(x).ok}}

(***************************************************************************)
(* C16.  rewind(c, f) sets c.ip to 0, makes f the function of c, clears    *)
(* the operand stack of c and sets its status to Suspended whether it was  *)
(* Suspended, Running or Done; the environment of c is unchanged: every    *)
(* name bound before is bound to the same value after.                     *)
(***************************************************************************)
C16_Rewind ==
    [][RewindStep
         => /\ coros[1].status \in {"Suspended", "Running", "Done"}
            /\ coros'[1].ip = 0
            /\ coros'[1].fun \in Compiled
            /\ coros'[1].stack = <<>>
            /\ coros'[1].status = "Suspended"
            /\ coros'[1].env = coros[1].env
            /\ \A name \in DOMAIN coros[1].env :
                   /\ name \in DOMAIN coros'[1].env
                   /\ coros'[1].env[name] = coros[1].env[name]
            /\ \A c \in Ids : c # 1 => coros'[c] = coros[c]]_vars

\* the top-level coroutine has been rewound for a second entry with the
\* names the first entry bound
C16_Witness ==
    /\ pc = "rewound" /\ entries = 2
    /\ coros[1].ip = 0 /\ coros[1].stack = <<>>
    /\ coros[1].status = "Suspended"
    /\ "g" \in DOMAIN coros[1].env
    /\ coros[1].env["g"].t = "Co"
    /\ code_len(coros[1].fun.code) > 0

\* what a call of run gives: its result, the lines it printed and the status
\* it leaves the top-level coroutine in
Outcome(res, printed, status) ==
    [result |-> res, printed |-> printed, status |-> status]

DivMsg == "cannot divide by zero"
NoGMsg == "no binding for name 'g'"

\* what run(build(src)) gives for each source
FileOutcome ==
    [ empty |-> Outcome(OkResult(Unit), <<>>, "Done"),
      gen |-> Outcome(OkResult(Unit), <<"0", "1", "2", "unit">>, "Done"),
      resume0 |-> Outcome(ErrResult(NoGMsg), <<>>, "Running"),
      resume1 |-> Outcome(ErrResult(NoGMsg), <<>>, "Running"),
      resume2 |-> Outcome(ErrResult(NoGMsg), <<>>, "Running"),
      args |-> Outcome(OkResult(Unit), <<"1", "-1", "7", "7">>, "Done"),
      arity_bad |-> Outcome(ErrResult(ArityMsg(2, 1)), <<>>, "Suspended"),
      yield_bad |-> Outcome(ErrResult(ArityMsg(1, 2)), <<"1">>, "Suspended"),
      err_in |-> Outcome(ErrResult(DivMsg), <<"\"e\"">>, "Suspended"),
      nested |-> Outcome(ErrResult(NonSuspendedMsg), <<"10", "20">>, "Suspended"),
      self |-> Outcome(PanicResult, <<>>, "Suspended"),
      top_yield |-> Outcome(OkResult(Num(5)), <<>>, "Suspended"),
      misc |-> Outcome(OkResult(Unit), <<"\"a\"", "-3/2", "true">>, "Done"),
      dup |-> Outcome(OkResult(Unit), <<"2">>, "Done"),
      not_co |-> Outcome(ErrResult("only coroutines can be resumed"),
                         <<"\"n\"">>, "Suspended"),
      err_deep |-> Outcome(ErrResult(DivMsg), <<"\"o\"">>, "Suspended"),
      print_self |-> Outcome(PanicResult,
                             <<"<coro fn: p status: suspended>">>, "Suspended"),
      ancestor |-> Outcome(PanicResult, <<>>, "Suspended"),
      twins |-> Outcome(OkResult(Unit), <<"1", "0">>, "Done"),
      err_mid |-> Outcome(ErrResult(DivMsg), <<"\"m\"">>, "Running"),
      cond |-> Outcome(OkResult(Unit), <<"\"a\"">>, "Done"),
      create_unbound |-> Outcome(ErrResult("no binding for name 'nope'"),
                                 <<"\"c\"">>, "Running"),
      create_not_fn |-> Outcome(ErrResult("'x' is not a function"), <<>>,
                                "Running"),
      loop |-> Outcome(OkResult(Unit), <<"0", "1", "unit", "unit">>, "Done"),
      arms |-> Outcome(OkResult(Unit), <<"0", "1", "\"lo\"">>, "Done"),
      spin |-> Outcome(OkResult(Unit), <<"1", "1">>, "Done") ]

\* the names a source reads without binding them first
FreeNames(src) ==
    IF src \in {"resume0", "resume1", "resume2"} THEN {"g"} ELSE {}

\* the function the top-level coroutine runs was compiled from src: by build
\* in run_file, by the last entry in run_repl
Ran(src) ==
    /\ parse(src).ok
    /\ Len(coros) > 0
    /\ coros[1].fun = compile(parse(src).ast, <<entries>>)

\* the step ends a call of run
RunEnds ==
    /\ pc \in {"built", "rewound", "exec"}
    /\ pc' \in {"read", "exit", "abort"}

\* the last n elements of a sequence
Last(seq, n) == SubSeq(seq, Len(seq) - n + 1, Len(seq))

(***************************************************************************)
(* C17.  rewind(c, compile(src)) followed by run(c) gives the result (or   *)
(* error), the printed lines and the final status that run(build(src))     *)
(* gives, whatever ip, stack and status the earlier entries left in c; the *)
(* history of c shows only through the names src reads from the            *)
(* environment the earlier entries left.  FileOutcome is what run_file     *)
(* gives; every run of the REPL whose source reads no name bound by an     *)
(* earlier entry gives the same.                                           *)
(***************************************************************************)
C17_RewindLikeBuild ==
    [][\A src \in DOMAIN Programs :
          (RunEnds /\ Ran(src) /\ FreeNames(src) \cap DOMAIN coros'[1].env = {})
            => LET o == FileOutcome[src]
               IN  /\ result' = o.result
                   /\ coros'[1].status = o.status
                   /\ Len(output') >= Len(output)
                   /\ Len(output') >= Len(o.printed)
                   /\ Last(output', Len(o.printed)) = o.printed
                   /\ entries <= 1 => output' = o.printed]_vars

\* the second entry of a session has run gen to its end on the coroutine
\* that the first entry left Running with a value on its stack
C17_Witness ==
    /\ mode = "repl" /\ pc = "read" /\ entries = 2
    /\ Ran("gen")
    /\ result = OkResult(Unit)
    /\ coros[1].status = "Done"
    /\ output = <<"\"m\"", "0", "1", "2", "unit">>

\* the step is an entry of the REPL that does not compile
CompileErrStep == pc = "read" /\ pc' = "read" /\ entries' = entries + 1

\* what run_repl does with its persistent top-level coroutine: an entry that
\* does not compile leaves every coroutine untouched, a rewound coroutine
\* passes the status check of run, a call of run that returns a value or an
\* error leads back to repl_read, and no name is ever unbound
SessionStep ==
    /\ CompileErrStep => coros' = coros
    /\ pc = "rewound" => (pc' = "exec" /\ chain' = <<1>>)
    /\ (pc = "exec" /\ result'.kind \in {"ok", "runtime_err"}) => pc' = "read"
    /\ Len(coros') >= Len(coros)
    /\ DOMAIN coros[1].env \subseteq DOMAIN coros'[1].env

(***************************************************************************)
(* C18.  In the REPL the session goes on after every entry: whatever the   *)
(* entry did, the driver reads, compiles and runs the next one on the same *)
(* top-level coroutine, which passes its status check; an entry that does  *)
(* not compile leaves the coroutine untouched and the names bound by       *)
(* earlier entries stay bound.                                             *)
(***************************************************************************)
C18_SessionContinues ==
    [][mode = "repl" => (pc' # "abort" /\ SessionStep)]_vars

\* the environment, operand stack and ip of a coroutine
Frame(co) == <<co.env, co.stack, co.ip>>

(***************************************************************************)
(* C19.  Environment, operand stack and ip are private to a coroutine.  A  *)
(* step of the running coroutine A changes them in another coroutine B     *)
(* only when the step is a Resume of B, which installs the arguments in B, *)
(* or when A yields or finishes and B is the caller whose own Resume       *)
(* pushes the value A produced; this holds also when A and B were created  *)
(* from the same function definition.  A coroutine made by Create starts   *)
(* with an empty environment and an empty stack at ip 0.                   *)
(***************************************************************************)
C19_PrivateFrames ==
    [][pc = "exec"
         => /\ \A b \in Ids :
                 b # Top
                   => \/ Frame(coros'[b]) = Frame(coros[b])
                      \/ ResumeStep /\ b = Target /\ Entered(b)
                      \/ /\ ReturnStep /\ b = chain[Len(chain) - 1]
                         /\ Frame(coros'[b])
                              = <<coros[b].env, Append(coros[b].stack, Produced),
                                  coros[b].ip>>
            /\ \A c \in 1..Len(coros') :
                 c > Len(coros)
                   => /\ At({"OpCreate"})
                      /\ Frame(coros'[c]) = <<EmptyEnv, <<>>, 0>>]_vars

\* two coroutines created from one definition hold different values for
\* the same name and stand at different instructions
C19_Witness ==
    \E a, b \in Ids :
        /\ a > 1 /\ b > 1 /\ a # b
        /\ coros[a].fun = coros[b].fun
        /\ "n" \in DOMAIN coros[a].env /\ "n" \in DOMAIN coros[b].env
        /\ coros[a].env["n"] = Num(1)
        /\ coros[b].env["n"] = Num(0)
        /\ coros[a].ip # coros[b].ip

\* the instructions at which a coroutine gives up control, and OpRet
ControlOps == {"OpYield", "OpResume", "OpRet"}

(***************************************************************************)
(* C20.  The suspension points are exactly Yield and Resume.  Executing    *)
(* any other instruction except Ret changes the status of no coroutine and *)
(* hands control to no other dispatch loop: the same coroutine runs next,  *)
(* unless the instruction fails and the run ends.  Yield suspends the      *)
(* coroutine that executes it and returns to its resumer; Resume of a      *)
(* coroutine that can be resumed suspends the caller and enters the        *)
(* callee.                                                                 *)
(***************************************************************************)
C20_SuspensionPoints ==
    [][/\ (AtInstr /\ Instr.op \notin ControlOps)
            => /\ \A c \in Ids : coros'[c].status = coros[c].status
               /\ \/ chain' = chain
                  \/ chain' = <<>> /\ result'.kind = "runtime_err"
       /\ (At({"OpYield"}) /\ Len(Cur.stack) > 0)
            => /\ coros'[Top].status = "Suspended"
               /\ chain' = SubSeq(chain, 1, Len(chain) - 1)
       /\ (ResumeCall /\ Raised = Ok)
            => /\ coros'[Top].status = "Suspended"
               /\ coros'[Target].status = "Running"
               /\ chain' = Append(chain, Target)]_vars

\* a created coroutine has just printed: it is still the running one and
\* its resumer still awaits it
C20_Witness ==
    /\ pc = "exec" /\ Len(chain) = 2
    /\ Cur.status = "Running"
    /\ Cur.ip > 0 /\ Cur.fun.code.instrs[Cur.ip].op = "OpPrint"
    /\ Len(output) > 0
    /\ coros[chain[1]].status = "Suspended"

\* the step is the OpPrint of the running coroutine
PrintStep == At({"OpPrint"}) /\ Len(Cur.stack) > 0 /\ pc' # "abort"

(***************************************************************************)
(* C21.  Print outputs appear in the order the dispatch loops execute      *)
(* their Prints.  A line is written in the very step that executes the     *)
(* Print, after all lines written before; no other step writes, so when a  *)
(* coroutine yields (or finishes) every line it printed is in the output   *)
(* before the Resume of its caller returns, and so before anything the     *)
(* caller prints afterwards.                                               *)
(***************************************************************************)
C21_PrintOrder ==
    [][/\ PrintStep => /\ Len(output') = Len(output) + 1
                       /\ SubSeq(output', 1, Len(output)) = output
                       /\ chain' = chain
       /\ ~PrintStep => output' = output
       /\ (pc = "exec" /\ chain' # chain) => output' = output
       /\ (entries = 0 /\ Ran("args")) =>
             /\ \E n \in 0..4 : output = SubSeq(<<"1", "-1", "7", "7">>, 1, n)
             /\ PrintStep => (Len(chain) = 2 <=> Len(output) \in {0, 2})]_vars

\* the callee has printed 1 and yielded, and the caller has printed what its
\* Resume returned
C21_Witness ==
    /\ Ran("args") /\ entries = 0
    /\ pc = "exec" /\ chain = <<1>>
    /\ output = <<"1", "-1">>
    /\ \E c \in Ids : c > 1 /\ SuspendedAtYield(c)

(***************************************************************************)
(* C22.  Print of a Str writes the raw characters of the string, without   *)
(* surrounding quotes: print (if true then "a" else "b" end) writes a.     *)
(***************************************************************************)
C22_StrPrintedRaw ==
    [][(PrintStep /\ Cur.stack[Len(Cur.stack)].t = "Str")
         => output' = Append(output, Cur.stack[Len(Cur.stack)].s)]_vars

\* the running coroutine was created from the function gen by the first
\* source of the process, and the top-level coroutine resumed it
GenRuns ==
    /\ Ran("gen") /\ entries <= 1
    /\ pc = "exec" /\ Len(chain) = 2
    /\ FnName(Cur.fun) = "gen"

(***************************************************************************)
(* C23.  The generator { let i = 0; while i < 3 do { yield i;              *)
(* let i = i + 1 } end }, resumed without arguments, produces 0, 1 and 2   *)
(* on its first three resumes and is Suspended after each; the fourth      *)
(* resume runs the loop to its end and returns Unit through Ret, which     *)
(* leaves the coroutine Done.  (The top-level code prints each result, so  *)
(* the number of lines printed counts the resumes that have returned.)     *)
(***************************************************************************)
C23_Generator ==
    [][/\ (ResumeStep /\ Ran("gen") /\ entries <= 1) => Instr.arg = 0
       /\ GenRuns
            => /\ Cur.ip < code_len(Cur.fun.code)
               /\ pc' # "abort" /\ result' = result
               /\ At({"OpYield"})
                    => /\ Len(output) <= 2
                       /\ Produced = Num(Len(output))
                       /\ coros'[Top].status = "Suspended"
                       /\ Delivered(Num(Len(output)))
               /\ At({"OpRet"})
                    => /\ Len(output) = 3
                       /\ Produced = Unit
                       /\ coros'[Top].status = "Done"
                       /\ Delivered(Unit)
       /\ (RunEnds /\ Ran("gen") /\ entries <= 1)
            => /\ output' = <<"0", "1", "2", "unit">>
               /\ coros'[2].status = "Done"]_vars

\* the fourth resume has returned unit and the generator is Done
C23_Witness ==
    /\ Ran("gen") /\ entries <= 1
    /\ Len(coros) = 2 /\ coros[2].status = "Done"
    /\ FnName(coros[2].fun) = "gen"
    /\ coros[2].env["i"] = Num(3)
    /\ output = <<"0", "1", "2", "unit">>

\* the coroutine outer of the source nested runs, resumed by the top-level
\* code of the first source of the process
OuterRuns ==
    /\ Ran("nested") /\ entries <= 1
    /\ pc = "exec" /\ Len(chain) = 2
    /\ FnName(Cur.fun) = "outer"

(***************************************************************************)
(* C24.  Nested coroutines.  What inner produces is the result of the      *)
(* Resume outer executed: it is on top of outer's stack, with outer        *)
(* Running, before outer executes anything else, in particular before      *)
(* outer's next Yield, which hands it on to outer's own resumer.  Once     *)
(* inner is Done, outer's next Resume of inner fails with the              *)
(* non-suspended error; outer executes nothing more, nothing is pushed     *)
(* for outer's resumer and the error is the result of the run.  In         *)
(* `def outer = { def inner = { yield 10; 20 }; let i = create inner;      *)
(* yield (resume i); yield (resume i); resume i }` outer yields 10, then   *)
(* 20, then fails.                                                         *)
(***************************************************************************)
C24_NestedThreading ==
    [][/\ (ReturnStep /\ Len(chain) > 2)
            => LET p == chain[Len(chain) - 1]
               IN  /\ coros'[p].status = "Running"
                   /\ coros'[p].stack = Append(coros[p].stack, Produced)
                   /\ chain'[Len(chain')] = p
       /\ (OuterRuns /\ At({"OpYield"}))
            => /\ Cur.fun.code.instrs[Cur.ip].op = "OpResume"
               /\ Len(output) < 2
               /\ Produced = IF Len(output) = 0 THEN Num(10) ELSE Num(20)
               /\ coros[3].status = IF Len(output) = 0 THEN "Suspended" ELSE "Done"
               /\ Delivered(Produced)
       /\ (OuterRuns /\ ResumeStep /\ coros[Target].status = "Done")
            => /\ result' = ErrResult(NonSuspendedMsg)
               /\ chain' = <<>>
               /\ output' = output /\ output = <<"10", "20">>
               /\ coros'[1] = coros[1]
               /\ coros'[Top].ip = Cur.ip + 1
               /\ coros'[Target] = coros[Target]]_vars

\* outer has failed on its third Resume of inner, after the top-level code
\* printed the two values outer threaded through
C24_Witness ==
    /\ Ran("nested") /\ entries <= 1
    /\ result = ErrResult(NonSuspendedMsg)
    /\ output = <<"10", "20">>
    /\ Len(coros) = 3
    /\ FnName(coros[2].fun) = "outer" /\ coros[2].status = "Suspended"
    /\ FnName(coros[3].fun) = "inner" /\ coros[3].status = "Done"

\* the running coroutine is about to execute OpCreate of the name it names
CreateStep == At({"OpCreate"})

(***************************************************************************)
(* C25.  Create(i) fails with a runtime error and pushes nothing when the  *)
(* name is unbound in the environment of the executing coroutine, or bound *)
(* to a value that is not a Fn.  Otherwise it pushes a Co for a new        *)
(* coroutine of that function with ip 0, status Suspended, an empty stack  *)
(* and an empty environment, which is none of the coroutines that existed  *)
(* before; the environment of the executing coroutine is unchanged.        *)
(***************************************************************************)
C25_Create ==
    [][CreateStep
         => IF Operand.s \notin DOMAIN Cur.env
            THEN /\ result' = ErrResult("no binding for name '" \o Operand.s \o "'")
                 /\ Len(coros') = Len(coros)
                 /\ coros'[Top].stack = Cur.stack
                 /\ coros'[Top].env = Cur.env
            ELSE IF Cur.env[Operand.s].t # "Fn"
            THEN /\ result' = ErrResult("'" \o Operand.s \o "' is not a function")
                 /\ Len(coros') = Len(coros)
                 /\ coros'[Top].stack = Cur.stack
                 /\ coros'[Top].env = Cur.env
            ELSE /\ result' = result /\ chain' = chain
                 /\ Len(coros') = Len(coros) + 1
                 /\ coros'[Top].stack = Append(Cur.stack, [t |-> "Co", c |-> Len(coros')])
                 /\ Len(coros') \notin Ids
                 /\ coros'[Len(coros')] =
                        [ip |-> 0, fun |-> Cur.env[Operand.s].def,
                         status |-> "Suspended", env |-> EmptyEnv, stack |-> <<>>]
                 /\ coros'[Top].env = Cur.env
                 /\ \A c \in Ids : c # Top => coros'[c] = coros[c]]_vars

\* a coroutine with bindings of its own has created a second coroutine of
\* a function that already has one: the new one is fresh
C25_Witness ==
    /\ pc = "exec" /\ Len(coros) > 2
    /\ Cur.ip > 0 /\ Cur.fun.code.instrs[Cur.ip].op = "OpCreate"
    /\ Cur.stack # <<>> /\ Cur.stack[Len(Cur.stack)] = Co(Len(coros))
    /\ coros[Len(coros)] = Coro_new(coros[Len(coros)].fun)
    /\ \E c \in Ids : c < Len(coros) /\ c > 1 /\ coros[c].fun = coros[Len(coros)].fun
    /\ Cur.env # EmptyEnv

\* the two operands of the binary instruction about to run
BinStep(ops) == AtInstr /\ Instr.op \in ops /\ Len(Cur.stack) > 1
Left == Cur.stack[Len(Cur.stack) - 1]
Right == Cur.stack[Len(Cur.stack)]

\* the value the step pushed in place of the two operands
Pushed == coros'[Top].stack[Len(Cur.stack) - 1]

\* the step replaces the two operands by one value and the loop goes on
OneResult ==
    /\ result' = result /\ pc' = "exec" /\ chain' = chain
    /\ coros'[Top].stack = Append(SubSeq(Cur.stack, 1, Len(Cur.stack) - 2), Pushed)

\* v is the number num / den
IsNum(v, num, den) == v.t = "Num" /\ v.d > 0 /\ v.n * den = num * v.d

(***************************************************************************)
(* C26.  Add, Sub, Mul, Div and Lt fail with 'operands must be numbers'    *)
(* unless both operands are Num; the types are tested before the divisor,  *)
(* so Div fails with 'cannot divide by zero' exactly when both operands    *)
(* are Num and the divisor is 0.  In every other case the instruction does *)
(* not fail and replaces its operands by exactly one result.               *)
(***************************************************************************)
C26_ArithChecks ==
    [][BinStep({"OpAdd", "OpSub", "OpMul", "OpDiv", "OpLt"})
         => IF Left.t # "Num" \/ Right.t # "Num"
            THEN /\ result' = ErrResult("operands must be numbers")
                 /\ coros'[Top].stack = Cur.stack
            ELSE IF Instr.op = "OpDiv" /\ Right.n = 0
            THEN result' = ErrResult("cannot divide by zero")
            ELSE /\ OneResult
                 /\ CASE Instr.op = "OpAdd" ->
                           IsNum(Pushed, Left.n * Right.d + Right.n * Left.d,
                                 Left.d * Right.d)
                      [] Instr.op = "OpSub" ->
                           IsNum(Pushed, Left.n * Right.d - Right.n * Left.d,
                                 Left.d * Right.d)
                      [] Instr.op = "OpMul" ->
                           IsNum(Pushed, Left.n * Right.n, Left.d * Right.d)
                      [] Instr.op = "OpDiv" ->
                           Pushed.t = "Num"
                           /\ Pushed.n * Left.d * Right.n = Left.n * Right.d * Pushed.d
                      [] Instr.op = "OpLt" ->
                           Pushed = [t |-> "Bool",
                                     b |-> Left.n * Right.d < Right.n * Left.d]]_vars

\* "a" / 0 has failed on the types of its operands, not on the divisor
C26_Witness ==
    /\ pc = "exit"
    /\ result = ErrResult("operands must be numbers")
    /\ coros[1].fun.code.instrs[coros[1].ip].op = "OpDiv"
    /\ Len(coros[1].stack) = 2
    /\ coros[1].stack[1] = Str("a")
    /\ coros[1].stack[2] = Num(0)

\* a and b, of the same variant Fn or Co, are one object: the same Rc
\* allocation of a FnDef, the same cell of the heap of coroutines
SameObject(a, b) ==
    IF a.t = "Fn" THEN a.def.code.rc = b.def.code.rc ELSE a.c = b.c

(***************************************************************************)
(* C28.  OpEq pushes true exactly when its operands are of the same        *)
(* variant and, for Unit, Bool, Num and Str, have the same value, for Fn   *)
(* and Co, are the same object; values of different variants are never     *)
(* equal, a handle equals itself and two coroutines created separately     *)
(* from the same function are not equal.                                   *)
(***************************************************************************)
C28_Equality ==
    [][BinStep({"OpEq"})
         => /\ OneResult
            /\ Pushed = Bool(IF Left.t # Right.t THEN FALSE
                             ELSE IF Left.t \in {"Fn", "Co"}
                             THEN SameObject(Left, Right)
                             ELSE Left = Right)
            /\ (Left.t = "Co" /\ Right.t = "Co" /\ Left.c # Right.c
                  => Pushed = Bool(FALSE))
            /\ (Left.t \in {"Fn", "Co"} /\ Left = Right
                  => Pushed = Bool(TRUE))]_vars

\* g == h has printed false, g and h being two coroutines of the function f
C28_Witness ==
    /\ pc = "exit"
    /\ output = <<"false">>
    /\ result.kind = "ok"
    /\ LET code == coros[1].fun.code
           env == coros[1].env
       IN  /\ \E i \in 3..Len(code.instrs) :
                /\ code.instrs[i].op = "OpEq"
                /\ code.instrs[i - 2].op = "OpLoad"
                /\ code.consts[code.instrs[i - 2].arg + 1] = Str("g")
                /\ code.instrs[i - 1].op = "OpLoad"
                /\ code.consts[code.instrs[i - 1].arg + 1] = Str("h")
           /\ env["g"].t = "Co" /\ env["h"].t = "Co"
           /\ env["g"].c # env["h"].c
           /\ coros[env["g"].c] = coros[env["h"].c]

\* v is the unit value or the boolean false
Falsey(v) == v = [t |-> "Unit"] \/ v = [t |-> "Bool", b |-> FALSE]

(***************************************************************************)
(* C29.  Not and Branch decide on one predicate: a value is falsey iff it  *)
(* is Unit or Bool(false).  Not replaces its operand by Bool(true) when    *)
(* the operand is falsey and by Bool(false) otherwise; Branch leaves the   *)
(* operand on the stack and skips its offset when the operand is falsey    *)
(* and falls through otherwise.  Num(0), the empty string, Fn and Co       *)
(* values are truthy.                                                      *)
(***************************************************************************)
C29_Falsey ==
    [][(AtInstr /\ Instr.op \in {"OpNot", "OpBranch"} /\ Len(Cur.stack) > 0)
         => /\ result' = result /\ pc' = "exec" /\ chain' = chain
            /\ IF Instr.op = "OpNot"
               THEN /\ coros'[Top].stack =
                         Append(SubSeq(Cur.stack, 1, Len(Cur.stack) - 1),
                                [t |-> "Bool", b |-> Falsey(Right)])
                    /\ coros'[Top].ip = Cur.ip + 1
               ELSE /\ coros'[Top].stack = Cur.stack
                    /\ coros'[Top].ip =
                         IF Falsey(Right) THEN Cur.ip + 1 + Instr.arg
                         ELSE Cur.ip + 1]_vars

\* Branch has fallen through on the empty string
C29_Witness ==
    /\ pc = "exec"
    /\ Len(coros) > 0
    /\ coros[1].ip > 0
    /\ coros[1].fun.code.instrs[coros[1].ip].op = "OpBranch"
    /\ Len(coros[1].stack) = 1
    /\ coros[1].stack[1] = Str("")

\* the code objects of a state: the code of every coroutine and, through the
\* Fn constants, the code of every function defined inside it
RECURSIVE CodesOf(_)
CodesOf(code) ==
    {code} \cup UNION {CodesOf(code.consts[i].def.code) :
                         i \in {j \in 1..Len(code.consts) : code.consts[j].t = "Fn"}}
Codes == UNION {CodesOf(coros[c].fun.code) : c \in 1..Len(coros)}

\* every code object the compiler produces for the sources of Spec: for the
\* text of a file and for each entry of a session
AllCompiled ==
    {compile(Programs[s], <<e>>) : s \in DOMAIN Programs, e \in 0..(MaxEntries + 1)}
AllCodes == UNION {CodesOf(f.code) : f \in AllCompiled}

\* values handed to add_const: names and literals of the programs, and some
\* that no program holds
PoolValues ==
    { [t |-> "Unit"], [t |-> "Bool", b |-> TRUE],
      [t |-> "Num", n |-> 0, d |-> 1], [t |-> "Num", n |-> 1, d |-> 1],
      [t |-> "Num", n |-> 7, d |-> 1],
      [t |-> "Str", s |-> "g"], [t |-> "Str", s |-> "gen"],
      [t |-> "Str", s |-> "a"], [t |-> "Str", s |-> "zz"] }

\* the instructions whose argument is the pool index of a name
NameOps == {"OpLoad", "OpStore", "OpCreate"}

\* the contract of add_const and what follows from it, on every pool
CompiledPools ==
    \A code \in AllCodes :
       /\ \A i, j \in 1..Len(code.consts) :
             (code.consts[i].t = code.consts[j].t
                /\ IF code.consts[i].t \in {"Fn", "Co"}
                   THEN SameObject(code.consts[i], code.consts[j])
                   ELSE code.consts[i] = code.consts[j])
             => i = j
       /\ \A i, j \in 1..Len(code.instrs) :
             (code.instrs[i].op \in NameOps /\ code.instrs[j].op \in NameOps
                /\ code.consts[code.instrs[i].arg + 1].s
                     = code.consts[code.instrs[j].arg + 1].s)
             => code.instrs[i].arg = code.instrs[j].arg
       /\ \A v \in PoolValues :
             LET idx == add_const_idx(code, v)
                 after == add_const(code, v)
             IN  IF \E i \in 1..Len(code.consts) : code.consts[i] = v
                 THEN /\ idx < Len(code.consts)
                      /\ code.consts[idx + 1] = v
                      /\ after = code
                 ELSE /\ idx = Len(code.consts)
                      /\ after.consts = Append(code.consts, v)
                      /\ after.instrs = code.instrs

(***************************************************************************)
(* C27.  add_const returns the index of the entry equal to the value when  *)
(* the pool has one, and leaves the pool as it is; otherwise it appends    *)
(* the value and returns the length the pool had.  So no pool of a         *)
(* compiled code object holds two equal entries, and within one code       *)
(* object every Load, Store and Create of one name carry the same index.   *)
(***************************************************************************)
C27_ConstPool == CompiledPools /\ Codes \subseteq AllCodes

\* a compiled program that stores and loads one name through one pool entry,
\* behind other entries, and whose pool holds some of PoolValues and not others
C27_Witness ==
    /\ Len(coros) > 0
    /\ LET code == coros[1].fun.code
       IN  /\ \E i, j \in 1..Len(code.instrs) :
                /\ code.instrs[i].op = "OpStore"
                /\ code.instrs[j].op = "OpLoad"
                /\ code.instrs[i].arg = code.instrs[j].arg
                /\ code.instrs[i].arg > 0
           /\ \E v \in PoolValues : \E i \in 2..Len(code.consts) : code.consts[i] = v
           /\ \E v \in PoolValues : \A i \in 1..Len(code.consts) : code.consts[i] # v

\* The while commands of a code object, each named by the position of its
\* OpLoop.  Positions count from 0, as ip does.
Loops(code) == {l \in 0..(code_len(code) - 1) : code.instrs[l + 1].op = "OpLoop"}
\* where the condition of the loop begins
CondIdx(code, l) == l + 1 - code.instrs[l + 1].arg
\* the OpBranch that tests the condition: the one that jumps just behind l
ExitIdx(code, l) ==
    CHOOSE e \in CondIdx(code, l)..l :
       /\ code.instrs[e + 1].op = "OpBranch"
       /\ e + 1 + code.instrs[e + 1].arg = l + 1
\* the positions of the body, from the OpPop of the condition to the OpLoop
BodyOf(code, l) == (ExitIdx(code, l) + 1)..l

(***************************************************************************)
(* C30.  For every while command in the code of a coroutine: the OpLoop    *)
(* goes back to the start of the condition; the OpBranch behind the        *)
(* condition goes on into the body when the condition is truthy and, when  *)
(* it is falsey, jumps to the OpPop and OpUnit behind the loop, which      *)
(* leave Unit as the value of the command; and no step takes a coroutine   *)
(* into the body of the loop but that OpBranch on a truthy condition.      *)
(* while i < 2 counts 0, 1 and gives unit; while false do print 9 end      *)
(* gives unit and prints nothing.                                          *)
(***************************************************************************)
C30_While ==
    [][/\ \A c \in 1..Len(coros) : \A l \in Loops(coros[c].fun.code) :
            LET co == coros[c]
                code == co.fun.code
                e == ExitIdx(code, l)
                running == pc = "exec" /\ c = Top
            IN  /\ \E x \in CondIdx(code, l)..l :
                      /\ code.instrs[x + 1].op = "OpBranch"
                      /\ x + 1 + code.instrs[x + 1].arg = l + 1
                /\ code.instrs[e + 2].op = "OpPop"
                /\ code.instrs[l + 2].op = "OpPop"
                /\ code.instrs[l + 3].op = "OpUnit"
                /\ (running /\ co.ip = e /\ Len(co.stack) > 0)
                     => /\ coros'[c].stack = co.stack
                        /\ coros'[c].ip =
                             IF Falsey(co.stack[Len(co.stack)]) THEN l + 1
                             ELSE e + 1
                /\ (running /\ co.ip = l)
                     => /\ coros'[c].ip = CondIdx(code, l)
                        /\ coros'[c].stack = co.stack
                /\ (/\ c <= Len(coros')
                    /\ coros'[c].fun = co.fun
                    /\ coros'[c].ip \in BodyOf(code, l)
                    /\ co.ip \notin BodyOf(code, l))
                     => /\ running
                        /\ co.ip = e
                        /\ ~Falsey(co.stack[Len(co.stack)])
       /\ (entries = 0 /\ Ran("loop"))
            => \E n \in 0..4 : output = SubSeq(<<"0", "1", "unit", "unit">>, 1, n)
       /\ (pc = "exit" /\ entries = 0 /\ Ran("loop"))
            => output = <<"0", "1", "unit", "unit">>]_vars

\* both loops of the source have run: the first behind two iterations, the
\* second behind none
C30_Witness ==
    /\ Ran("loop") /\ entries = 0
    /\ pc = "exit"
    /\ result = OkResult(Unit)
    /\ output = <<"0", "1", "unit", "unit">>
    /\ coros[1].env["i"] = Num(2)

\* the instructions that move ip, by their position (counting from 0, as ip
\* does), and the position each lands on: its offset applied to the position
\* of the instruction behind it
Jumps(code) ==
    {i \in 0..(code_len(code) - 1) :
        code.instrs[i + 1].op \in {"OpBranch", "OpJump", "OpLoop"}}
Landing(code, i) ==
    IF code.instrs[i + 1].op = "OpLoop"
    THEN i + 1 - code.instrs[i + 1].arg
    ELSE i + 1 + code.instrs[i + 1].arg

\* the landings of one code object: all inside the code; a Branch lands on the
\* OpPop emitted behind its patch, which follows the OpJump of an if or the
\* OpLoop of a while; a Jump goes forward, over the arm that the Branch before
\* it lands on; a Loop goes back to a condition that ends in its Branch
LandingsOf(code) ==
    \A i \in Jumps(code) :
       LET to == Landing(code, i)
           op == code.instrs[i + 1].op
       IN  /\ to \in 0..(code_len(code) - 1)
           /\ op = "OpBranch"
                => /\ to > i + 1
                   /\ code.instrs[to + 1].op = "OpPop"
                   /\ code.instrs[to].op \in {"OpJump", "OpLoop"}
                   /\ code.instrs[i + 2].op = "OpPop"
           /\ op = "OpJump"
                => /\ to > i + 1
                   /\ \E b \in Jumps(code) :
                         /\ b < i
                         /\ code.instrs[b + 1].op = "OpBranch"
                         /\ Landing(code, b) = i + 1
           /\ op = "OpLoop"
                => /\ to < i
                   /\ \E b \in Jumps(code) :
                         /\ to < b /\ b < i
                         /\ code.instrs[b + 1].op = "OpBranch"
                         /\ Landing(code, b) = i + 1

\* backpatch and emit_loop applied at every position of a code object:
\* the patched instruction lands on the position of the instruction emitted
\* next, the emitted OpLoop lands on its target
PatchesOf(code) ==
    /\ \A idx \in 0..(code_len(code) - 1) : \A is_jump \in BOOLEAN :
          LET p == backpatch(code, idx, is_jump)
          IN  /\ code_len(p) = code_len(code)
              /\ p.instrs[idx + 1].op = (IF is_jump THEN "OpJump" ELSE "OpBranch")
              /\ Landing(p, idx) = code_len(code)
              /\ \A k \in 1..code_len(code) : k # idx + 1 => p.instrs[k] = code.instrs[k]
    /\ \A target_idx \in 0..code_len(code) :
          LET q == emit_loop(code, target_idx)
          IN  /\ code_len(q) = code_len(code) + 1
              /\ q.instrs[code_len(q)].op = "OpLoop"
              /\ Landing(q, code_len(code)) = target_idx

CompiledLandings == \A code \in AllCodes : LandingsOf(code) /\ PatchesOf(code)

(***************************************************************************)
(* C31.  In every code object the compiler produced, every Branch, Jump    *)
(* and Loop offset, applied to the index of the instruction behind it,     *)
(* lands on an index in [0, code.length): a patched Branch or Jump lands   *)
(* on the instruction emitted right behind the patch, a Loop on the first  *)
(* instruction of its condition.  The dispatch loop moves ip to exactly    *)
(* that index, so ip stays inside the code after every jump.               *)
(***************************************************************************)
C31_Landings ==
    /\ [](CompiledLandings /\ Codes \subseteq AllCodes)
    /\ [][(AtInstr /\ Instr.op \in {"OpJump", "OpLoop"})
            => /\ coros'[Top].ip = Landing(Cur.fun.code, Cur.ip)
               /\ coros'[Top].ip < code_len(Cur.fun.code)]_vars
    /\ [][(AtInstr /\ Instr.op = "OpBranch" /\ Len(Cur.stack) > 0)
            => /\ coros'[Top].ip \in {Cur.ip + 1, Landing(Cur.fun.code, Cur.ip)}
               /\ coros'[Top].ip < code_len(Cur.fun.code)]_vars

\* the coroutine of w has taken the Jump behind the last arm of its body and
\* stands on the OpRet the Jump lands on, the last instruction of the code
C31_Witness ==
    /\ Ran("arms") /\ entries = 0
    /\ pc = "exec" /\ chain = <<1, 2>>
    /\ coros[2].ip = code_len(coros[2].fun.code) - 1
    /\ coros[2].fun.code.instrs[coros[2].ip + 1].op = "OpRet"
    /\ coros[2].stack = <<Str("lo")>>
    /\ \E j \in Jumps(coros[2].fun.code) :
          /\ coros[2].fun.code.instrs[j + 1].op = "OpJump"
          /\ Landing(coros[2].fun.code, j) = coros[2].ip

\* how many values an instruction takes from the stack (pops or peeks) ...
Needs(ins) ==
    CASE ins.op \in {"OpAdd", "OpSub", "OpMul", "OpDiv", "OpLt", "OpEq"} -> 2
      [] ins.op \in {"OpNeg", "OpNot", "OpBranch", "OpStore", "OpYield",
                     "OpPrint", "OpPop", "OpRet"} -> 1
      [] ins.op = "OpResume" -> ins.arg + 1
      [] OTHER -> 0
\* ... and by how much the stack has grown when the next instruction of the
\* same coroutine runs (for OpYield and OpResume: after the resume that
\* continues the coroutine, or the return of the resumed one, pushed a value)
Net(ins) ==
    CASE ins.op \in {"OpAdd", "OpSub", "OpMul", "OpDiv", "OpLt", "OpEq",
                     "OpPop", "OpRet"} -> -1
      [] ins.op \in {"OpNeg", "OpNot", "OpBranch", "OpStore", "OpYield",
                     "OpPrint", "OpJump", "OpLoop"} -> 0
      [] ins.op = "OpResume" -> 0 - ins.arg
      [] OTHER -> 1

\* what one pass knows of the stack depth before a position: nothing while no
\* path to it was seen, a clash when two paths disagree or a path comes from a
\* position that has no depth, else the depth
Unknown == [st |-> "unknown", d |-> 0]
Clash == [st |-> "clash", d |-> 0]
Depth(n) == [st |-> "depth", d |-> n]

\* One pass over the instructions from position i on.  known[k + 1] is what
\* is known of the stack depth before the instruction at position k.
RECURSIVE Depths(_, _, _)
Depths(code, i, known) ==
    IF i >= code_len(code) THEN known
    ELSE LET ins == code.instrs[i + 1]
             at == known[i + 1]
             out == IF at.st # "depth" \/ at.d < Needs(ins) THEN Clash
                    ELSE Depth(at.d + Net(ins))
             set(k, pos, v) ==
                 IF k[pos] = Unknown THEN [k EXCEPT ![pos] = v]
                 ELSE IF k[pos] = v THEN k
                 ELSE [k EXCEPT ![pos] = Clash]
             next ==
                 CASE ins.op \in {"OpJump", "OpLoop"} ->
                        set(known, Landing(code, i) + 1, out)
                   [] ins.op = "OpBranch" ->
                        set(set(known, Landing(code, i) + 1, out), i + 2, out)
                   [] ins.op = "OpRet" -> known
                   [] OTHER -> set(known, i + 2, out)
         IN  Then(next, LAMBDA k : Depths(code, i + 1, k))

\* the depth before each position of a code object that is entered with an
\* empty stack, and behind its last instruction; -1 where the pass found none
DepthOf(code) ==
    LET known == Depths(code, 0, [k \in 1..(code_len(code) + 1) |->
                                    IF k = 1 THEN Depth(0) ELSE Unknown])
    IN  [k \in 1..(code_len(code) + 1) |->
            IF known[k].st = "depth" THEN known[k].d ELSE 0 - 1]

\* every instruction finds the values it takes, and OpRet finds exactly one
Balanced(code) ==
    LET depth == DepthOf(code)
    IN  \A i \in 0..(code_len(code) - 1) :
           /\ depth[i + 1] >= Needs(code.instrs[i + 1])
           /\ code.instrs[i + 1].op = "OpRet" => depth[i + 1] = 1

\* the bindings of the sources and the bodies of their functions
TopBinds == UNION {{Programs[s][k] : k \in 1..Len(Programs[s])} : s \in DOMAIN Programs}
Bodies == {b.body : b \in {x \in TopBinds : x.k = "Def"}}

\* the code of a form compiled on its own leaves one value more than it found
PlusOne(code) == DepthOf(code)[code_len(code) + 1] = 1

CompiledBalanced ==
    /\ \A code \in AllCodes : Balanced(code)
    /\ \A b \in TopBinds : PlusOne(emit_bind(Code_new(<<0>>), b))
    /\ \A b \in Bodies : PlusOne(emit_cmd(Code_new(<<0>>), b))

(***************************************************************************)
(* C32.  Compiled code has net stack effect +1 for each complete binding,  *)
(* command and expression, and the depth of the operand stack before each  *)
(* instruction is the one the compiler arranged: every instruction that    *)
(* pops or peeks finds its operands, also behind a Yield (which pops one)  *)
(* and the resume that follows (which pushes one).                         *)
(***************************************************************************)
C32_StackDepth ==
    /\ [](/\ CompiledBalanced
          /\ Codes \subseteq AllCodes
          /\ \A c \in 1..Len(coros) :
                LET co == coros[c]
                    depth == DepthOf(co.fun.code)[co.ip + 1]
                IN  CASE co.status = "Done" -> TRUE
                      [] co.status = "Suspended" ->
                           Len(co.stack) = IF co.ip = 0 THEN 0 ELSE depth - 1
                      [] co.status = "Running" ->
                           (pc = "exec" /\ c = Top) => Len(co.stack) = depth)
    /\ [][AtInstr => Len(Cur.stack) >= Needs(Instr)]_vars

\* the coroutine of w, resumed behind the Yield in its loop, stands on the
\* OpJump behind the Yield with the one value the resume pushed
C32_Witness ==
    /\ Ran("arms") /\ entries = 0
    /\ pc = "exec" /\ chain = <<1, 2>>
    /\ coros[2].ip > 0
    /\ coros[2].fun.code.instrs[coros[2].ip].op = "OpYield"
    /\ coros[2].stack = <<Unit>>
    /\ DepthOf(coros[2].fun.code)[coros[2].ip + 1] = 1

\* The if commands of a code object, each named by the position of its OpJump
\* (only emit_if emits one).  Positions count from 0, as ip does.
Ifs(code) == {j \in Jumps(code) : code.instrs[j + 1].op = "OpJump"}
\* the OpBranch of the if: the one that lands behind the OpJump
BranchOf(code, j) ==
    CHOOSE b \in Jumps(code) :
       /\ b < j
       /\ code.instrs[b + 1].op = "OpBranch"
       /\ Landing(code, b) = j + 1
\* the positions of the two arms, each from its OpPop on
ThenArm(code, j) == (BranchOf(code, j) + 1)..j
ElseArm(code, j) == (j + 1)..(Landing(code, j) - 1)

(***************************************************************************)
(* C33.  For every if command in the code of a coroutine: OpBranch leaves  *)
(* the condition on the stack and goes to the then arm when it is truthy,  *)
(* to the else arm when it is falsey; each arm begins with the OpPop that  *)
(* removes the condition; the running coroutine comes into an arm by that  *)
(* OpBranch only (no other coroutine moves), and the OpJump that ends the  *)
(* then arm passes over the else arm,                                      *)
(* so one arm runs; behind the if the stack is as deep as it was at the    *)
(* OpBranch, one more than before the condition, with the value of the arm *)
(* on top.                                                                 *)
(***************************************************************************)
C33_IfArms ==
    [][/\ pc = "exec" =>
            \A j \in Ifs(Cur.fun.code) :
               LET code == Cur.fun.code
                   b == BranchOf(code, j)
                   x == Landing(code, j)
                   cond == Cur.stack[Len(Cur.stack)]
                   entered(arm) == /\ coros'[Top].fun = Cur.fun
                                   /\ coros'[Top].ip \in arm
                                   /\ Cur.ip \notin arm
               IN  /\ code.instrs[b + 2].op = "OpPop"
                   /\ code.instrs[j + 2].op = "OpPop"
                   /\ ThenArm(code, j) \cap ElseArm(code, j) = {}
                   /\ (Cur.ip = b /\ Len(Cur.stack) > 0)
                        => /\ coros'[Top].stack = Cur.stack
                           /\ coros'[Top].ip = IF Falsey(cond) THEN j + 1 ELSE b + 1
                   /\ Cur.ip \in {b + 1, j + 1}
                        => /\ coros'[Top].stack = SubSeq(Cur.stack, 1, Len(Cur.stack) - 1)
                           /\ Len(Cur.stack) = DepthOf(code)[b + 1]
                   /\ Cur.ip = j
                        => /\ coros'[Top].ip = x
                           /\ coros'[Top].stack = Cur.stack
                   /\ entered(ThenArm(code, j)) => Cur.ip = b /\ ~Falsey(cond)
                   /\ entered(ElseArm(code, j)) => Cur.ip = b /\ Falsey(cond)
                   /\ Cur.ip = x => Len(Cur.stack) = DepthOf(code)[b + 1]
       /\ \A c \in 1..Len(coros) :
            ((pc = "exec" => c # Top) /\ c <= Len(coros')
               /\ coros'[c].fun = coros[c].fun)
              => coros'[c].ip = coros[c].ip
       /\ (pc = "exit" /\ entries = 0 /\ Ran("cond")) => output = <<"\"a\"">>
       /\ (pc = "exit" /\ entries = 0 /\ Ran("misc"))
            => output = <<"\"a\"", "-3/2", "true">>
       /\ (pc = "exit" /\ entries = 0 /\ Ran("arms"))
            => output = <<"0", "1", "\"lo\"">>]_vars

\* the coroutine of w stands behind the if of its loop, the else arm has
\* printed 1 and left its value, after the then arm had yielded 0 in the
\* iteration before
C33_Witness ==
    /\ Ran("arms") /\ entries = 0
    /\ pc = "exec" /\ chain = <<1, 2>>
    /\ output = <<"0", "1">>
    /\ coros[2].stack = <<Unit>>
    /\ \E j \in Ifs(coros[2].fun.code) :
          /\ coros[2].ip = Landing(coros[2].fun.code, j)
          /\ coros[2].fun.code.instrs[coros[2].ip].op = "OpPrint"

(***************************************************************************)
(* C34.  A coroutine that executes OpRet holds exactly one value, whatever *)
(* loop iterations, yields and resumes came before: OpRet pops it, hands   *)
(* it to the resumer (or makes it the result of run), marks the coroutine  *)
(* Done and leaves its stack empty.  Every Done coroutine has an empty     *)
(* stack.                                                                  *)
(***************************************************************************)
C34_RetLeavesEmpty ==
    /\ [](\A c \in 1..Len(coros) :
            coros[c].status = "Done" => coros[c].stack = <<>>)
    /\ [][(AtInstr /\ Instr.op = "OpRet")
            => /\ Len(Cur.stack) = 1
               /\ coros'[Top].stack = <<>>
               /\ coros'[Top].status = "Done"
               /\ IF Len(chain) > 1
                  THEN LET p == chain[Len(chain) - 1]
                       IN  /\ chain' = SubSeq(chain, 1, Len(chain) - 1)
                           /\ coros'[p].stack = Append(coros[p].stack, Cur.stack[1])
                  ELSE result' = [kind |-> "ok", val |-> Cur.stack[1]]]_vars

\* the coroutine of w is Done with an empty stack, behind two iterations of
\* its loop, one of them across a yield, and the resumer has got its value
C34_Witness ==
    /\ entries = 0 /\ Ran("arms")
    /\ pc = "exec" /\ chain = <<1>>
    /\ Len(coros) = 2
    /\ coros[2].status = "Done"
    /\ coros[2].stack = <<>>
    /\ coros[2].ip = code_len(coros[2].fun.code)
    /\ coros[2].env["i"] = Num(2)
    /\ output = <<"0", "1">>
    /\ coros[1].stack = <<Str("lo")>>

\* co looks as Coro::new and rewind leave a coroutine: Suspended at ip 0
Fresh(co) == co.status = "Suspended" /\ co.ip = 0

(***************************************************************************)
(* C35.  A Suspended coroutine has ip = 0 iff it has executed no           *)
(* instruction since it was created or last rewound: only OpCreate and     *)
(* rewind make a coroutine Suspended at ip 0, and a coroutine that has     *)
(* executed an instruction is not Suspended at ip 0 afterwards, also when  *)
(* an OpLoop has taken it back to index 0.  OpYield suspends at ip >= 1.   *)
(* So the resume of a coroutine suspended at a Yield pushes one value and  *)
(* binds nothing, and the resume of a coroutine Suspended at ip 0 binds    *)
(* the parameters and pushes nothing.                                      *)
(***************************************************************************)
C35_FirstEntry ==
    /\ [](\A c \in 1..Len(coros) : Fresh(coros[c]) => coros[c].stack = <<>>)
    /\ [][/\ AtInstr => ~Fresh(coros'[Top])
          /\ \A c \in 1..Len(coros') :
               (Fresh(coros'[c]) /\ (c > Len(coros) \/ ~Fresh(coros[c])))
                 => \/ c = Len(coros) + 1 /\ AtInstr /\ Instr.op = "OpCreate"
                    \/ c = 1 /\ pc = "read" /\ pc' = "rewound"
          /\ (AtInstr /\ Instr.op = "OpYield" /\ Len(Cur.stack) > 0)
               => /\ coros'[Top].status = "Suspended"
                  /\ coros'[Top].ip = Cur.ip + 1
          /\ \A c \in 1..Len(coros) :
               (coros[c].status = "Suspended" /\ coros'[c].status = "Running"
                  /\ coros[c].ip > 0
                  /\ coros[c].fun.code.instrs[coros[c].ip].op = "OpYield")
                 => /\ AtInstr /\ Instr.op = "OpResume"
                    /\ coros'[c].ip = coros[c].ip
                    /\ coros'[c].env = coros[c].env
                    /\ coros'[c].stack =
                         Append(coros[c].stack,
                                IF Instr.arg = 0 THEN [t |-> "Unit"]
                                ELSE Cur.stack[Len(Cur.stack)])
          /\ \A c \in 1..Len(coros) :
               (Fresh(coros[c]) /\ coros'[c].status = "Running")
                 => /\ coros'[c].ip = 0
                    /\ coros'[c].stack = <<>>
                    /\ DOMAIN coros'[c].env =
                         DOMAIN coros[c].env
                         \cup {coros[c].fun.params[k] :
                                 k \in 1..Len(coros[c].fun.params)}]_vars

\* the coroutine of z, whose OpLoop lands on index 0, has gone through index 0
\* again and is suspended at its Yield a second time, at ip 5
C35_Witness ==
    /\ entries = 0 /\ Ran("spin")
    /\ pc = "exec" /\ chain = <<1>>
    /\ Len(coros) = 2
    /\ output = <<"1">>
    /\ coros[1].stack = <<Num(1)>>
    /\ coros[2].status = "Suspended"
    /\ coros[2].ip = 5
    /\ coros[2].fun.code.instrs[5].op = "OpYield"
    /\ \E l \in Loops(coros[2].fun.code) : CondIdx(coros[2].fun.code, l) = 0

====
